---- MODULE Spec2Model ----
(***************************************************************************)
(* GrowMaster scheduling engine: the task generator                        *)
(* (core/schedulers/intelligent_task_generator.py) and the notifier        *)
(* (core/schedulers/notification_system.py) over the abstract store the    *)
(* schedulers query (relations gardens, tasks, inventory_items,            *)
(* notification_history, user_settings).                                   *)
(*                                                                         *)
(* Time is the local wall clock in minutes.  A timestamp string of the     *)
(* code (datetime.isoformat) is modelled by its minute count; a title      *)
(* string is modelled by the sequence of the fragments it is built from,   *)
(* so that "title = name" and "title LIKE %name%" stay different tests.    *)
(***************************************************************************)
EXTENDS Integers, Sequences, FiniteSets, TLC

VARIABLES
    now,               \* datetime.now(), minutes
    gardens,           \* relation gardens: id -> row
    tasks,             \* relation tasks: sequence of rows, index = id
    lastOp,            \* the public operation that returned last: <<name, garden id>>
    generated_tasks,   \* return value of the last generate_tasks_for_garden
    total_generated,   \* return value of the last generate_tasks_for_all_gardens
    run,               \* per caller thread: position inside generate_tasks_for_all_gardens
    utc_offset,        \* local time minus UTC, minutes (SQLite's 'now' is UTC)
    inventory_items,   \* relation inventory_items: sequence of rows
    user_settings,     \* relation user_settings: key -> string value
    notification_history,  \* relation notification_history: sequence of rows
    preferences,       \* self.preferences
    notification_queue,    \* self.notification_queue
    running,           \* self.running
    notification_thread,   \* self.notification_thread: thread id, 0 for None
    threads,           \* worker threads: id -> position and wake-up time
    coordination_result    \* return value of the last coordinate_daily_tasks

genVars == <<lastOp, generated_tasks, total_generated, run, coordination_result>>
storeVars == <<gardens, tasks, inventory_items, user_settings, notification_history>>
notifierVars == <<preferences, notification_queue, running, notification_thread, threads>>
notifVars == <<utc_offset, inventory_items, user_settings, notification_history,
               preferences, notification_queue, running, notification_thread, threads>>

vars == <<now, gardens, tasks, lastOp, generated_tasks, total_generated, run,
          utc_offset, inventory_items, user_settings, notification_history,
          preferences, notification_queue, running, notification_thread, threads,
          coordination_result>>

-----------------------------------------------------------------------------
(* Bounds of the model *)

MaxDays == 2
MaxTasks == 3
MaxManualTasks == 1
MaxThreads == 2
MaxMinutes == 2
MaxQueue == 6
MaxHistory == 6
MaxManualAlerts == 1

-----------------------------------------------------------------------------
(* Time *)

Day == 24 * 60
HalfDay == Day \div 2
StartTime == 10 * Day
MaxNow == StartTime + MaxDays * Day

Hour == Day \div 24

GardenIds == {1, 2}
Callers == {"ui", "timer"}
ThreadIds == 1..MaxThreads

-----------------------------------------------------------------------------
(* Template library *)

Template(n, tt, gs, d, f, p, dur) ==
    [name |-> n, task_type |-> tt, growth_stage |-> gs,
     days_from_stage_start |-> d, frequency_days |-> f,
     priority |-> p, estimated_duration |-> dur]

HydroponicTemplates ==
    << Template("Check Seed Germination", "monitoring", "germination", 1, 1, "High", 5),
       Template("Maintain Germination Environment", "environmental", "germination", 0, 1, "Critical", 10),
       Template("First Nutrient Solution", "feeding", "seedling", 3, 7, "High", 15),
       Template("Transplant to Growing System", "maintenance", "seedling", 14, 0, "Critical", 30),
       Template("Weekly Nutrient Solution Change", "feeding", "vegetative", 0, 7, "Critical", 45),
       Template("Prune Lower Leaves", "pruning", "vegetative", 14, 14, "Medium", 20),
       Template("LST (Low Stress Training)", "training", "vegetative", 21, 7, "Medium", 25),
       Template("Switch to Flowering Nutrients", "feeding", "flowering", 0, 0, "Critical", 30),
       Template("Monitor Flower Development", "monitoring", "flowering", 7, 3, "High", 15),
       Template("Defoliation for Light Penetration", "pruning", "flowering", 21, 0, "Medium", 45),
       Template("Check Trichome Development", "monitoring", "harvest", 0, 2, "Critical", 10),
       Template("Harvest Plants", "harvesting", "harvest", 7, 0, "Critical", 120) >>

SoilTemplates ==
    << Template("Water Check - Soil", "watering", "vegetative", 0, 2, "High", 10) >>

AeroponicTemplates ==
    << Template("Check Spray Nozzles", "maintenance", "vegetative", 0, 3, "Critical", 15) >>

\* self.task_templates.get(method, self.task_templates['hydroponic'])
TaskTemplates(method) ==
    CASE method = "hydroponic" -> HydroponicTemplates
      [] method = "soil" -> SoilTemplates
      [] method = "aeroponic" -> AeroponicTemplates
      [] OTHER -> HydroponicTemplates

-----------------------------------------------------------------------------
(* Store reads of the generator *)

\* SELECT ... FROM gardens WHERE id = ? AND is_active = 1; cursor.fetchone():
\* the set of the rows found, empty for None
GetGardenInfo(garden_id) ==
    { gardens[g] : g \in { h \in DOMAIN gardens : h = garden_id /\ gardens[h].is_active } }

\* (datetime.now() - planted_date).days
CalculateDaysSincePlanting(garden_info) ==
    (now - garden_info.planted_date) \div Day

\* variant: each threshold day still belongs to the earlier stage
DetermineGrowthStage_Inclusive(garden_info) ==
    LET days_since_planting == CalculateDaysSincePlanting(garden_info) IN
    IF days_since_planting <= 7 THEN "germination"
    ELSE IF days_since_planting <= 21 THEN "seedling"
    ELSE IF days_since_planting <= 56 THEN "vegetative"
    ELSE IF days_since_planting <= 112 THEN "flowering"
    ELSE "harvest"

DetermineGrowthStage(garden_info) ==
    LET days_since_planting == CalculateDaysSincePlanting(garden_info) IN
    IF days_since_planting < 7 THEN "germination"
    ELSE IF days_since_planting < 21 THEN "seedling"
    ELSE IF days_since_planting < 56 THEN "vegetative"
    ELSE IF days_since_planting < 112 THEN "flowering"
    ELSE "harvest"

\* variant: the day of the stage change counts as day 1 of the stage
CalculateDaysInCurrentStage_OneBased(stage, total_days) ==
    LET stage_starts ==
            CASE stage = "germination" -> 0
              [] stage = "seedling" -> 7
              [] stage = "vegetative" -> 21
              [] stage = "flowering" -> 56
              [] stage = "harvest" -> 112
              [] OTHER -> 0
    IN total_days - stage_starts + 1

CalculateDaysInCurrentStage(stage, total_days) ==
    LET stage_starts ==
            CASE stage = "germination" -> 0
              [] stage = "seedling" -> 7
              [] stage = "vegetative" -> 21
              [] stage = "flowering" -> 56
              [] stage = "harvest" -> 112
              [] OTHER -> 0
    IN total_days - stage_starts

\* title LIKE '%name%' on a title built from fragments
TitleContains(title, task_name) ==
    \E i \in DOMAIN title : title[i] = task_name

\* variant: the prior task is looked up by "title = name" instead of LIKE
GetLastSimilarTask_ExactTitle(db, garden_id, task_name) ==
    LET rows == { i \in DOMAIN db : /\ db[i].garden_id = garden_id
                                     /\ db[i].title = <<task_name>> }
    IN  { db[i].created_date : i \in { j \in rows :
            \A k \in rows : db[k].created_date <= db[j].created_date } }

\* SELECT created_date FROM tasks WHERE garden_id = ? AND title LIKE ?
\* ORDER BY created_date DESC LIMIT 1; the empty set stands for "no row"
GetLastSimilarTask(db, garden_id, task_name) ==
    LET rows == { i \in DOMAIN db : /\ db[i].garden_id = garden_id
                                     /\ TitleContains(db[i].title, task_name) }
    IN  { db[i].created_date : i \in { j \in rows :
            \A k \in rows : db[k].created_date <= db[j].created_date } }

\* SELECT COUNT(*) FROM tasks WHERE garden_id = ? AND title = ?   (count > 0)
TaskAlreadyExists(db, garden_id, task_name) ==
    \E i \in DOMAIN db : db[i].garden_id = garden_id /\ db[i].title = <<task_name>>

ShouldGenerateTask(template, current_stage, days_since_planting, garden_id, db) ==
    LET stage_days == CalculateDaysInCurrentStage(current_stage, days_since_planting)
        last_task == GetLastSimilarTask(db, garden_id, template.name)
    IN
    IF template.growth_stage # current_stage THEN FALSE
    ELSE IF stage_days < template.days_from_stage_start THEN FALSE
    ELSE IF template.frequency_days > 0
         THEN ~ \E created \in last_task :
                    (now - created) \div Day < template.frequency_days
         ELSE ~ TaskAlreadyExists(db, garden_id, template.name)

\* a created_date text that datetime.fromisoformat cannot read; as text it
\* sorts below every ISO timestamp
Unparsable == 0 - 1

\* _should_generate_task raises for this template: it gets as far as the
\* frequency check and fromisoformat(last_task['created_date']) fails
TemplateRaises(template, current_stage, days_since_planting, garden_id, db) ==
    /\ template.growth_stage = current_stage
    /\ CalculateDaysInCurrentStage(current_stage, days_since_planting)
          >= template.days_from_stage_start
    /\ template.frequency_days > 0
    /\ GetLastSimilarTask(db, garden_id, template.name) = {Unparsable}

\* f"{template.name} - {garden_info['name']}"
TaskTitle(template, garden_info) == <<template.name, " - ", garden_info.name>>

CreateTaskFromTemplate(template, garden_id, garden_info) ==
    [title |-> TaskTitle(template, garden_info),
     garden_id |-> garden_id,
     task_type |-> template.task_type,
     priority |-> template.priority,
     due_date |-> now + Day,
     estimated_duration |-> template.estimated_duration,
     is_completed |-> FALSE,
     created_date |-> now]

\* the list generate_tasks_for_garden returns when the store holds db
GenerateTasksForGarden(garden_id, db) ==
    IF GetGardenInfo(garden_id) = {} THEN <<>>
    ELSE
      LET garden_info == CHOOSE row \in GetGardenInfo(garden_id) : TRUE
          current_stage == DetermineGrowthStage(garden_info)
          days_since_planting == CalculateDaysSincePlanting(garden_info)
          templates == TaskTemplates(garden_info.growing_method)
          eligible == SelectSeq(templates,
                         LAMBDA t : ShouldGenerateTask(t, current_stage,
                                        days_since_planting, garden_id, db))
      IN IF \E k \in DOMAIN templates :
                TemplateRaises(templates[k], current_stage, days_since_planting,
                               garden_id, db)
         THEN <<>>
         ELSE [i \in 1..Len(eligible) |->
                  CreateTaskFromTemplate(eligible[i], garden_id, garden_info)]

\* INSERT INTO tasks ...; conn.commit()
SaveTaskToDatabase(db, task) == Append(db, task)

\* SELECT id FROM gardens WHERE is_active = 1, in rowid order
ActiveGardens ==
    LET ids == { g \in GardenIds : gardens[g].is_active } IN
    SelectSeq(<<1, 2>>, LAMBDA g : g \in ids)

RECURSIVE SaveAll(_, _)
SaveAll(db, list) ==
    IF list = <<>> THEN db
    ELSE SaveAll(SaveTaskToDatabase(db, Head(list)), Tail(list))

\* the loop of generate_tasks_for_all_gardens run by one caller alone:
\* <<store afterwards, total_generated>>
RECURSIVE GenerateForAll(_, _, _)
GenerateForAll(garden_list, db, total) ==
    IF garden_list = <<>> THEN <<db, total>>
    ELSE LET list == GenerateTasksForGarden(Head(garden_list), db) IN
         GenerateForAll(Tail(garden_list), SaveAll(db, list), total + Len(list))

-----------------------------------------------------------------------------
(* Notifier: preferences *)

NumberStrings ==
    << "0", "1", "2", "3", "4", "5", "6", "7", "8", "9", "10", "11", "12", "13",
       "14", "15", "16", "17", "18", "19", "20", "21", "22", "23", "24", "25",
       "26", "27", "28", "29", "30" >>

\* str(value) of an int
IntToStr(n) == NumberStrings[n + 1]

\* int(text)
ParseInt(text) == CHOOSE n \in 0..(Len(NumberStrings) - 1) : NumberStrings[n + 1] = text

\* settings.get(key, default)
SettingsGet(settings, key, default) ==
    IF key \in DOMAIN settings THEN settings[key] ELSE default

\* _load_preferences over the rows of user_settings
LoadPreferences(settings) ==
    [enabled |-> SettingsGet(settings, "notification_enabled", "true") = "true",
     task_reminders |-> SettingsGet(settings, "notification_task_reminders", "true") = "true",
     overdue_alerts |-> SettingsGet(settings, "notification_overdue_alerts", "true") = "true",
     system_notifications |-> SettingsGet(settings, "notification_system", "true") = "true",
     growth_milestones |-> SettingsGet(settings, "notification_growth", "true") = "true",
     sound_enabled |-> SettingsGet(settings, "notification_sound", "true") = "true",
     reminder_advance_minutes |-> ParseInt(SettingsGet(settings, "notification_advance", "30")),
     quiet_hours_start |-> ParseInt(SettingsGet(settings, "notification_quiet_start", "22")),
     quiet_hours_end |-> ParseInt(SettingsGet(settings, "notification_quiet_end", "7"))]

\* the row the schema seeds
DefaultSettings == [k \in {"notification_enabled"} |-> "true"]

\* str(value).lower() if isinstance(value, bool) else str(value); a value is
\* <<"bool", b>> or <<"int", n>>
SettingText(value) ==
    IF value[1] = "bool" THEN (IF value[2] THEN "true" ELSE "false")
    ELSE IntToStr(value[2])

\* INSERT OR REPLACE INTO user_settings, one row per key of new_preferences
WriteSettings(settings, new_preferences) ==
    [k \in DOMAIN settings \cup { "notification_" \o key : key \in DOMAIN new_preferences } |->
        IF \E key \in DOMAIN new_preferences : k = "notification_" \o key
        THEN SettingText(new_preferences[
                 CHOOSE key \in DOMAIN new_preferences : k = "notification_" \o key])
        ELSE settings[k]]

-----------------------------------------------------------------------------
(* Notifier: scans and queue *)

SleepSeconds == 60
SleepMinutes == SleepSeconds \div 60
PerCycleLimit == 5

\* SQLite's datetime('now') / julianday('now')
UtcNow == now - utc_offset

Indexes(seq) == [i \in 1..Len(seq) |-> i]

Notification(type, priority, task_id, garden_id, resource_name) ==
    [type |-> type, priority |-> priority, task_id |-> task_id,
     garden_id |-> garden_id, resource_name |-> resource_name,
     delayed |-> FALSE, original_time |-> 0]

IsQuietHours ==
    LET current_hour == (now \div Hour) % 24 IN
    IF preferences.quiet_hours_start > preferences.quiet_hours_end
    THEN \/ current_hour >= preferences.quiet_hours_start
         \/ current_hour <= preferences.quiet_hours_end
    ELSE /\ preferences.quiet_hours_start <= current_hour
         /\ current_hour <= preferences.quiet_hours_end

QueueNotification(queue, notification) ==
    Append(queue, IF IsQuietHours
                  THEN [notification EXCEPT !.delayed = TRUE, !.original_time = now]
                  ELSE notification)

RECURSIVE QueueAll(_, _)
QueueAll(queue, list) ==
    IF list = <<>> THEN queue
    ELSE QueueAll(QueueNotification(queue, Head(list)), Tail(list))

\* SELECT task_id FROM notification_history WHERE notification_type = ?
\* AND sent_date > datetime('now', '-<window>')
RecentlyNotified(history, type, window) ==
    { history[h].task_id : h \in { k \in DOMAIN history :
          /\ history[k].notification_type = type
          /\ history[k].sent_date > UtcNow - window } }

CheckTaskReminders(queue, history) ==
    IF ~ preferences.task_reminders THEN queue
    ELSE
      LET reminder_time == now + preferences.reminder_advance_minutes
          rows == SelectSeq(Indexes(tasks), LAMBDA i :
                    /\ tasks[i].garden_id \in DOMAIN gardens
                    /\ ~ tasks[i].is_completed
                    /\ tasks[i].due_date <= reminder_time
                    /\ tasks[i].due_date > now
                    /\ i \notin RecentlyNotified(history, "task_reminder", Day))
      IN QueueAll(queue, [k \in 1..Len(rows) |->
            Notification("task_reminder",
                         IF tasks[rows[k]].priority = "High" THEN "medium" ELSE "low",
                         rows[k], 0, "")])

\* hours_overdue < 2, < 12, else
OverduePriority(minutes_overdue) ==
    IF minutes_overdue < 2 * Hour THEN "medium"
    ELSE IF minutes_overdue < 12 * Hour THEN "high"
    ELSE "critical"

CheckOverdueTasks(queue, history) ==
    IF ~ preferences.overdue_alerts THEN queue
    ELSE
      LET rows == SelectSeq(Indexes(tasks), LAMBDA i :
                    /\ tasks[i].garden_id \in DOMAIN gardens
                    /\ ~ tasks[i].is_completed
                    /\ tasks[i].due_date < UtcNow
                    /\ i \notin RecentlyNotified(history, "task_overdue", 4 * Hour))
      IN QueueAll(queue, [k \in 1..Len(rows) |->
            Notification("task_overdue",
                         OverduePriority(UtcNow - tasks[rows[k]].due_date),
                         rows[k], 0, "")])

\* _get_expected_stage on julianday('now') - julianday(planted_date), in minutes
GetExpectedStage(minutes_since_planting) ==
    IF minutes_since_planting < 7 * Day THEN "germination"
    ELSE IF minutes_since_planting < 21 * Day THEN "seedling"
    ELSE IF minutes_since_planting < 56 * Day THEN "vegetative"
    ELSE IF minutes_since_planting < 112 * Day THEN "flowering"
    ELSE "harvest"

\* the active gardens whose expected stage differs from the stored one
StageChanges(rows) ==
    SelectSeq(<<1, 2>>, LAMBDA g :
        /\ rows[g].is_active
        /\ GetExpectedStage(UtcNow - rows[g].planted_date) # rows[g].current_stage)

\* variant: the scan runs whatever the growth_milestones preference
CheckGrowthMilestones_NoFlag(queue, rows) ==
    LET changed == StageChanges(rows) IN
    << QueueAll(queue, [k \in 1..Len(changed) |->
          Notification("growth_milestone", "medium", 0, changed[k], "")]),
       [g \in DOMAIN rows |->
          IF \E k \in 1..Len(changed) : changed[k] = g
          THEN [rows[g] EXCEPT
                  !.current_stage = GetExpectedStage(UtcNow - rows[g].planted_date),
                  !.stage_start_date = UtcNow]
          ELSE rows[g]] >>

\* _check_growth_milestones: <<queue, gardens>> afterwards
CheckGrowthMilestones(queue, rows) ==
    IF ~ preferences.growth_milestones THEN <<queue, rows>>
    ELSE
      LET changed == StageChanges(rows) IN
      << QueueAll(queue, [k \in 1..Len(changed) |->
            Notification("growth_milestone", "medium", 0, changed[k], "")]),
         [g \in DOMAIN rows |->
            IF \E k \in 1..Len(changed) : changed[k] = g
            THEN [rows[g] EXCEPT
                    !.current_stage = GetExpectedStage(UtcNow - rows[g].planted_date),
                    !.stage_start_date = UtcNow]
            ELSE rows[g]] >>

\* variant: an item with an alert still waiting in the queue is skipped
CheckResourceAlerts_Once(queue) ==
    LET rows == SelectSeq(Indexes(inventory_items), LAMBDA i :
                  /\ inventory_items[i].current_quantity <= inventory_items[i].minimum_threshold
                  /\ inventory_items[i].current_quantity > 0
                  /\ \A k \in DOMAIN queue :
                        queue[k].resource_name # inventory_items[i].name)
    IN QueueAll(queue, [k \in 1..Len(rows) |->
          Notification("resource_alert", "high", 0, 0, inventory_items[rows[k]].name)])

\* variant: the out-of-stock rows are selected as well
CheckResourceAlerts_WithEmpty(queue) ==
    LET rows == SelectSeq(Indexes(inventory_items), LAMBDA i :
                  inventory_items[i].current_quantity <= inventory_items[i].minimum_threshold)
    IN QueueAll(queue, [k \in 1..Len(rows) |->
          Notification("resource_alert", "high", 0, 0, inventory_items[rows[k]].name)])

CheckResourceAlerts(queue) ==
    LET rows == SelectSeq(Indexes(inventory_items), LAMBDA i :
                  /\ inventory_items[i].current_quantity <= inventory_items[i].minimum_threshold
                  /\ inventory_items[i].current_quantity > 0)
    IN QueueAll(queue, [k \in 1..Len(rows) |->
          Notification("resource_alert", "high", 0, 0, inventory_items[rows[k]].name)])

\* _log_notification: the row inserted, sent_date = datetime('now')
LogNotification(history, notification) ==
    Append(history, [notification_type |-> notification.type,
                     priority |-> notification.priority,
                     task_id |-> notification.task_id,
                     garden_id |-> notification.garden_id,
                     sent_date |-> UtcNow])

\* variant: the master switch is not consulted
SendNotification_IgnoreEnabled(history, notification) ==
    LogNotification(history, notification)

\* _send_notification: transport, then the history row
SendNotification(history, notification) ==
    IF ~ preferences.enabled THEN history
    ELSE LogNotification(history, notification)

Min(a, b) == IF a < b THEN a ELSE b

Abs(x) == IF x < 0 THEN -x ELSE x

\* variant: a delayed notification is put back whatever the hour
RECURSIVE Drain_KeepDelayed(_, _, _)
Drain_KeepDelayed(n, queue, history) ==
    IF n = 0 \/ queue = <<>> THEN <<queue, history>>
    ELSE LET notification == Head(queue) IN
         IF notification.delayed
         THEN Drain_KeepDelayed(n - 1, Append(Tail(queue), notification), history)
         ELSE Drain_KeepDelayed(n - 1, Tail(queue), SendNotification(history, notification))

\* the loop of _process_notification_queue: <<queue, history>> afterwards
RECURSIVE Drain(_, _, _)
Drain(n, queue, history) ==
    IF n = 0 \/ queue = <<>> THEN <<queue, history>>
    ELSE LET notification == Head(queue) IN
         IF notification.delayed /\ IsQuietHours
         THEN Drain(n - 1, Append(Tail(queue), notification), history)
         ELSE Drain(n - 1, Tail(queue), SendNotification(history, notification))

\* variant: the whole queue is processed in one cycle
ProcessNotificationQueue_NoLimit(queue, history) ==
    Drain(Len(queue), queue, history)

ProcessNotificationQueue(queue, history) ==
    Drain(Min(PerCycleLimit, Len(queue)), queue, history)

\* one pass of the body of _notification_worker's loop:
\* <<queue, history, gardens>> afterwards
WorkerPass ==
    LET q1 == CheckTaskReminders(notification_queue, notification_history)
        q2 == CheckOverdueTasks(q1, notification_history)
        growth == CheckGrowthMilestones(q2, gardens)
        q4 == CheckResourceAlerts(growth[1])
        out == ProcessNotificationQueue(q4, notification_history)
    IN <<out[1], out[2], growth[2]>>

UnbornThread == [pc |-> "unborn", wake_at |-> 0]

-----------------------------------------------------------------------------
(* Daily coordinator: fetch, requirements, conflicts *)

\* gardens.location is NULL unless the user fills it in
NullLocation == "None"

\* the travel buffer between two locations, in minutes
TravelMinutes == 15

\* list.sort(key=...) and ORDER BY: seq in ascending order of the pairs
\* keys[i], elements with equal keys staying in their order
StableSort(seq, keys) ==
    LET Before(i, j) == \/ keys[i][1] < keys[j][1]
                        \/ keys[i][1] = keys[j][1] /\ keys[i][2] < keys[j][2]
        Rank(i) == 1 + Cardinality({ j \in DOMAIN seq :
                        \/ Before(j, i)
                        \/ ~ Before(i, j) /\ j < i })
    IN [k \in DOMAIN seq |-> seq[CHOOSE i \in DOMAIN seq : Rank(i) = k]]

RECURSIVE Flatten(_)
Flatten(lists) ==
    IF lists = <<>> THEN <<>> ELSE Head(lists) \o Flatten(Tail(lists))

\* target_date.strftime('%Y-%m-%d'): the midnight that starts the day
Midnight(t) == t - (t % Day)

\* {'Critical': 3, 'High': 2, 'Medium': 1, 'Low': 0}.get(priority, 0)
PriorityOrder(priority) ==
    CASE priority = "Critical" -> 3
      [] priority = "High" -> 2
      [] priority = "Medium" -> 1
      [] OTHER -> 0

\* ORDER BY t.priority compares the text of the column
PriorityTextRank(priority) ==
    CASE priority = "Critical" -> 1
      [] priority = "High" -> 2
      [] priority = "Low" -> 3
      [] priority = "Medium" -> 4
      [] priority = "critical" -> 5
      [] priority = "high" -> 6
      [] priority = "low" -> 7
      [] OTHER -> 8

\* the dict built from one row of the SELECT
PendingRow(i) ==
    [id |-> i,
     title |-> tasks[i].title,
     garden_id |-> tasks[i].garden_id,
     task_type |-> tasks[i].task_type,
     priority |-> tasks[i].priority,
     due_date |-> tasks[i].due_date,
     estimated_duration |-> tasks[i].estimated_duration,
     location |-> gardens[tasks[i].garden_id].location]

\* _get_pending_tasks_for_date: ORDER BY t.priority DESC, t.due_date ASC,
\* rows that tie come in rowid order
GetPendingTasksForDate(target_date) ==
    LET ids == SelectSeq(Indexes(tasks), LAMBDA i :
                  /\ ~ tasks[i].is_completed
                  /\ tasks[i].due_date >= Midnight(target_date)
                  /\ tasks[i].due_date < Midnight(target_date) + Day
                  /\ tasks[i].garden_id \in DOMAIN gardens
                  /\ gardens[tasks[i].garden_id].is_active)
        rows == [k \in DOMAIN ids |-> PendingRow(ids[k])]
    IN StableSort(rows, [k \in DOMAIN rows |->
          <<0 - PriorityTextRank(rows[k].priority), rows[k].due_date>>])

ResourceRequirement(resource_type, duration_minutes, flexibility_minutes) ==
    [resource_type |-> resource_type,
     duration_minutes |-> duration_minutes,
     flexibility_minutes |-> flexibility_minutes]

\* _analyze_resource_requirements, for one task; flexibility defaults to 60
TaskResources(task) ==
    LET duration == task.estimated_duration IN
    CASE task.task_type = "feeding" ->
            << ResourceRequirement("nutrients", duration, 60),
               ResourceRequirement("water", duration, 60),
               ResourceRequirement("equipment", duration, 60),
               ResourceRequirement("time", duration, 30) >>
      [] task.task_type = "watering" ->
            << ResourceRequirement("water", duration, 60),
               ResourceRequirement("time", duration, 60) >>
      [] task.task_type = "pruning" ->
            << ResourceRequirement("equipment", duration, 60),
               ResourceRequirement("time", duration, 120) >>
      [] task.task_type = "monitoring" ->
            << ResourceRequirement("equipment", duration, 60),
               ResourceRequirement("time", duration, 180) >>
      [] OTHER ->
            << ResourceRequirement("time", duration, 60) >>

ResourceTypesOf(task) ==
    { TaskResources(task)[k].resource_type : k \in DOMAIN TaskResources(task) }

\* the entries appended to resource_usage, in the order they are appended
ResourceUsage(task_list) ==
    Flatten([t \in DOMAIN task_list |->
        [k \in DOMAIN TaskResources(task_list[t]) |->
            LET req == TaskResources(task_list[t])[k] IN
            [resource_type |-> req.resource_type,
             task_id |-> task_list[t].id,
             start_time |-> task_list[t].due_date,
             end_time |-> task_list[t].due_date + req.duration_minutes,
             flexibility |-> req.flexibility_minutes]]])

\* the keys of resource_usage, in insertion order
UsedResourceTypes(usage) ==
    LET first == SelectSeq(Indexes(usage), LAMBDA k :
                    \A j \in 1..(k - 1) : usage[j].resource_type # usage[k].resource_type)
    IN [k \in DOMAIN first |-> usage[first[k]].resource_type]

\* the overlaps of neighbours among one resource's usages sorted by start
ResourceConflictsOf(usage, resource_type) ==
    LET of_type == SelectSeq(usage, LAMBDA u : u.resource_type = resource_type)
        usages == StableSort(of_type, [k \in DOMAIN of_type |-> <<of_type[k].start_time, 0>>])
        hits == SelectSeq(Indexes(usages), LAMBDA i :
                    i < Len(usages) /\ usages[i].end_time > usages[i + 1].start_time)
    IN [k \in DOMAIN hits |->
          [type |-> "resource_conflict",
           resource |-> resource_type,
           tasks |-> << usages[hits[k]].task_id, usages[hits[k] + 1].task_id >>,
           overlap_minutes |-> usages[hits[k]].end_time - usages[hits[k] + 1].start_time,
           flexibility |-> Min(usages[hits[k]].flexibility, usages[hits[k] + 1].flexibility)]]

PhysicalTaskTypes == {"pruning", "training", "harvesting", "maintenance"}

\* _check_location_conflicts
CheckLocationConflicts(task_list) ==
    LET physical == SelectSeq(task_list, LAMBDA t : t.task_type \in PhysicalTaskTypes)
        physical_tasks == StableSort(physical, [k \in DOMAIN physical |-> <<physical[k].due_date, 0>>])
        hits == SelectSeq(Indexes(physical_tasks), LAMBDA i :
                    /\ i < Len(physical_tasks)
                    /\ physical_tasks[i].location # physical_tasks[i + 1].location
                    /\ physical_tasks[i].location # NullLocation
                    /\ physical_tasks[i + 1].location # NullLocation
                    /\ physical_tasks[i + 1].due_date
                         - (physical_tasks[i].due_date + physical_tasks[i].estimated_duration)
                       < TravelMinutes)
    IN [k \in DOMAIN hits |->
          [type |-> "space_conflict",
           resource |-> "space",
           tasks |-> << physical_tasks[hits[k]].id, physical_tasks[hits[k] + 1].id >>,
           overlap_minutes |-> 0,
           flexibility |-> TravelMinutes]]

\* _detect_conflicts
DetectConflicts(task_list) ==
    LET usage == ResourceUsage(task_list)
        types == UsedResourceTypes(usage)
    IN Flatten([k \in DOMAIN types |-> ResourceConflictsOf(usage, types[k])])
       \o CheckLocationConflicts(task_list)

-----------------------------------------------------------------------------
(* Daily coordinator: resolution, batching, ordering *)

\* task['due_date'] = (due + minutes).isoformat() on the dict with this id
ShiftTask(task_list, id, minutes) ==
    [k \in DOMAIN task_list |->
        IF task_list[k].id = id
        THEN [task_list[k] EXCEPT !.due_date = @ + minutes]
        ELSE task_list[k]]

\* _resolve_resource_conflict: the lower priority of the two, the second of
\* the list when they tie, moves later by the conflict's flexibility
ResolveResourceConflict(task_list, conflict) ==
    LET involved_tasks == SelectSeq(task_list, LAMBDA t :
                              t.id = conflict.tasks[1] \/ t.id = conflict.tasks[2])
    IN IF Len(involved_tasks) # 2 THEN task_list
       ELSE LET task1 == involved_tasks[1]
                task2 == involved_tasks[2]
                task_to_reschedule ==
                    IF PriorityOrder(task1.priority) >= PriorityOrder(task2.priority)
                    THEN task2 ELSE task1
            IN ShiftTask(task_list, task_to_reschedule.id, conflict.flexibility)

\* _resolve_space_conflict: the second of the two in list order moves later
ResolveSpaceConflict(task_list, conflict) ==
    LET involved_tasks == SelectSeq(task_list, LAMBDA t :
                              t.id = conflict.tasks[1] \/ t.id = conflict.tasks[2])
    IN IF Len(involved_tasks) # 2 THEN task_list
       ELSE ShiftTask(task_list, involved_tasks[2].id, conflict.flexibility)

\* _resolve_conflicts: one pass over the detected conflicts, in order
RECURSIVE ResolveConflicts(_, _)
ResolveConflicts(task_list, conflicts) ==
    IF conflicts = <<>> THEN task_list
    ELSE ResolveConflicts(
            IF Head(conflicts).type = "resource_conflict"
            THEN ResolveResourceConflict(task_list, Head(conflicts))
            ELSE ResolveSpaceConflict(task_list, Head(conflicts)),
            Tail(conflicts))

\* _are_tasks_batchable
AreTasksBatchable(task1, task2) ==
    /\ ~ (task1.location # task2.location /\ task1.location # NullLocation)
    /\ ResourceTypesOf(task1) \cap ResourceTypesOf(task2) # {}
    /\ Abs(task2.due_date - task1.due_date) <= 120

\* the bonus of compatible_types for the pair, in either order
TypePairBonus(type1, type2) ==
    LET pair == {type1, type2} IN
    IF pair = {"feeding", "monitoring"} THEN 30
    ELSE IF pair = {"pruning", "training"} THEN 40
    ELSE IF pair = {"watering", "monitoring"} THEN 20
    ELSE 0

\* _calculate_compatibility_score, in tenths of a point
CalculateCompatibilityScore(task1, task2) ==
    LET time_diff == Abs(task2.due_date - task1.due_date) IN
      (IF task1.garden_id = task2.garden_id THEN 100 ELSE 0)
    + (IF task1.location = task2.location THEN 50 ELSE 0)
    + Cardinality(ResourceTypesOf(task1) \cap ResourceTypesOf(task2)) * 20
    + (IF time_diff < 60 THEN 60 - time_diff ELSE 0)
    + TypePairBonus(task1.task_type, task2.task_type)

\* _calculate_batch_efficiency, in tenths of a point
CalculateBatchEfficiency(batch_tasks, shared_resources, total_duration) ==
    LET efficiency ==
              500
            + Len(batch_tasks) * 100
            + Cardinality(shared_resources) * 50
            + (IF Cardinality({ batch_tasks[k].garden_id : k \in DOMAIN batch_tasks }) = 1
               THEN 150 ELSE 0)
            - (IF total_duration > 120 THEN total_duration - 120 ELSE 0)
    IN IF efficiency < 0 THEN 0 ELSE IF efficiency > 1000 THEN 1000 ELSE efficiency

RECURSIVE SumOf(_)
SumOf(numbers) == IF numbers = <<>> THEN 0 ELSE Head(numbers) + SumOf(Tail(numbers))

\* _create_batch_object
CreateBatchObject(batch_tasks) ==
    LET total_duration == SumOf([k \in DOMAIN batch_tasks |-> batch_tasks[k].estimated_duration])
        shared_resources == UNION { ResourceTypesOf(batch_tasks[k]) : k \in DOMAIN batch_tasks }
        earliest_due == CHOOSE d \in { batch_tasks[k].due_date : k \in DOMAIN batch_tasks } :
                            \A k \in DOMAIN batch_tasks : d <= batch_tasks[k].due_date
    IN [tasks |-> batch_tasks,
        total_duration |-> total_duration,
        shared_resources |-> shared_resources,
        optimal_start_time |-> earliest_due,
        efficiency_score |-> CalculateBatchEfficiency(batch_tasks, shared_resources, total_duration)]

\* compatibility_scores.sort(reverse=True) orders (score, task) tuples; two
\* equal scores make it compare the task dicts, which raises TypeError
ScoresTie(seed_task, compatible_tasks) ==
    \E i, j \in DOMAIN compatible_tasks :
        /\ i # j
        /\ CalculateCompatibilityScore(seed_task, compatible_tasks[i])
             = CalculateCompatibilityScore(seed_task, compatible_tasks[j])

\* variant: five candidates join the seed
MaxCandidates_Five == 4 + 1

\* compatibility_scores[:4]: the candidates that join the seed
MaxCandidates == 4

\* _create_task_batches: the batches, or failed when a sort raised
RECURSIVE CreateTaskBatches(_)
CreateTaskBatches(remaining_tasks) ==
    IF remaining_tasks = <<>> THEN [failed |-> FALSE, batches |-> <<>>]
    ELSE
      LET sorted == StableSort(remaining_tasks, [k \in DOMAIN remaining_tasks |->
                      <<0 - PriorityOrder(remaining_tasks[k].priority),
                        0 - remaining_tasks[k].due_date>>])
          seed_task == sorted[1]
          others == Tail(sorted)
          compatible_tasks == SelectSeq(others, LAMBDA t : AreTasksBatchable(seed_task, t))
      IN IF ScoresTie(seed_task, compatible_tasks)
         THEN [failed |-> TRUE, batches |-> <<>>]
         ELSE
           LET ranked == StableSort(compatible_tasks, [k \in DOMAIN compatible_tasks |->
                            <<0 - CalculateCompatibilityScore(seed_task, compatible_tasks[k]), 0>>])
               chosen == SubSeq(ranked, 1, Min(MaxCandidates, Len(ranked)))
               left == SelectSeq(others, LAMBDA t :
                          \A k \in DOMAIN chosen : chosen[k].id # t.id)
               rest == CreateTaskBatches(left)
           IN [failed |-> rest.failed,
               batches |-> IF rest.failed THEN <<>>
                           ELSE <<CreateBatchObject(<<seed_task>> \o chosen)>> \o rest.batches]

\* the urgency of a batch is the mean priority weight of its tasks
PriorityScore(priority) ==
    CASE priority = "Critical" -> 100
      [] priority = "High" -> 75
      [] priority = "Medium" -> 50
      [] OTHER -> 25

\* combined_score = efficiency * 0.6 + urgency * 0.4, in 3000ths of a point:
\* exact for the 1 to 5 tasks a batch holds
CombinedScore(batch) ==
    180 * batch.efficiency_score
    + (1200 \div Len(batch.tasks))
        * SumOf([k \in DOMAIN batch.tasks |-> PriorityScore(batch.tasks[k].priority)])

\* the running start time of _optimize_execution_order
RECURSIVE AssignStartTimes(_, _)
AssignStartTimes(ordered, current_time) ==
    IF ordered = <<>> THEN <<>>
    ELSE LET batch == Head(ordered).batch IN
         << [id |-> Head(ordered).index - 1,
             tasks |-> batch.tasks,
             total_duration_minutes |-> batch.total_duration,
             shared_resources |-> batch.shared_resources,
             optimal_start_time |-> current_time,
             estimated_end_time |-> current_time + batch.total_duration,
             efficiency_score |-> batch.efficiency_score,
             task_count |-> Len(batch.tasks),
             gardens_involved |-> { batch.tasks[k].garden_id : k \in DOMAIN batch.tasks }] >>
         \o AssignStartTimes(Tail(ordered), current_time + batch.total_duration + 15)

\* variant: the batches keep the order in which they were made
OptimizeExecutionOrder_Unsorted(batches) ==
    AssignStartTimes([i \in DOMAIN batches |-> [index |-> i, batch |-> batches[i]]],
                     Midnight(now) + 8 * Hour)

\* _optimize_execution_order: (combined_score, i, batch) sorted in reverse,
\* then start times from 08:00 of the day of the call
OptimizeExecutionOrder(batches) ==
    LET batch_priorities == [i \in DOMAIN batches |-> [index |-> i, batch |-> batches[i]]]
        ordered == StableSort(batch_priorities, [i \in DOMAIN batches |->
                      <<0 - CombinedScore(batches[i]), 0 - i>>])
    IN AssignStartTimes(ordered, Midnight(now) + 8 * Hour)

\* {'batches': [], 'conflicts': [], 'total_tasks': 0}
EmptyResult ==
    [kind |-> "empty", date |-> 0, total_tasks |-> 0,
     batches |-> <<>>, conflicts_resolved |-> <<>>]

\* the body of coordinate_daily_tasks once the fetch has returned
PlanFor(pending_tasks, target_date) ==
    LET conflicts == DetectConflicts(pending_tasks)
        resolved_tasks == ResolveConflicts(pending_tasks, conflicts)
        task_batches == CreateTaskBatches(resolved_tasks)
    IN IF pending_tasks = <<>>
       THEN EmptyResult
       ELSE IF task_batches.failed
       THEN [kind |-> "error", date |-> 0, total_tasks |-> 0,
             batches |-> <<>>, conflicts_resolved |-> <<>>]
       ELSE [kind |-> "plan", date |-> target_date, total_tasks |-> Len(pending_tasks),
             batches |-> OptimizeExecutionOrder(task_batches.batches),
             conflicts_resolved |-> conflicts]

\* coordinate_daily_tasks(target_date)
CoordinateDailyTasks(target_date) ==
    PlanFor(GetPendingTasksForDate(target_date), target_date)

\* _get_pending_tasks_for_date when the connection or the query raises:
\* the except branch logs and returns the empty list
FetchFailed == <<>>

-----------------------------------------------------------------------------
(* Initial states *)

\* growing method and age in days at the first observed instant, per garden
GardenSetups(g) ==
    IF g = 1 THEN { <<"hydroponic", 0>>, <<"hydroponic", 56>> }
    ELSE { <<"soil", 21>>, <<"dwc", 6>> }

GardenName(g) == IF g = 1 THEN "Garden A" ELSE "Garden B"

\* the row the wizard inserted at the instant planted_date
GardenRow(g, growing_method, planted_date, active) ==
    [name |-> GardenName(g),
     growing_method |-> growing_method,
     planted_date |-> planted_date,
     location |-> NullLocation,
     current_stage |-> "germination",
     stage_start_date |-> planted_date,
     is_active |-> active]

\* no coordinate_daily_tasks call has returned yet
NoResult == [kind |-> "none"]

IdleRun == [pc |-> "idle", gardens_left |-> <<>>, tasks_left |-> <<>>, total |-> 0]

Init ==
    /\ now = StartTime
    /\ \E s1 \in GardenSetups(1), s2 \in GardenSetups(2), active \in [GardenIds -> BOOLEAN] :
          /\ active[1]
          /\ LET setups == <<s1, s2>> IN
             gardens = [g \in GardenIds |-> GardenRow(g, setups[g][1], StartTime - setups[g][2] * Day, active[g])]
    /\ tasks = <<>>
    /\ lastOp = <<"none", 0>>
    /\ generated_tasks = <<>>
    /\ total_generated = 0
    /\ run = [c \in Callers |-> IdleRun]
    /\ coordination_result = NoResult
    /\ utc_offset = 0
    /\ inventory_items = <<>>
    /\ user_settings = DefaultSettings
    /\ notification_history = <<>>
    /\ preferences = LoadPreferences(DefaultSettings)
    /\ notification_queue = <<>>
    /\ running = FALSE
    /\ notification_thread = 0
    /\ threads = [w \in ThreadIds |-> UnbornThread]

-----------------------------------------------------------------------------
(* Actions *)

\* the clock advances by d minutes, up to horizon; a worker thread that is
\* runnable runs first, and a sleeping one wakes when its time.sleep(60) ends
Tick(d, horizon) ==
    /\ now + d <= horizon
    /\ \A w \in ThreadIds :
          /\ threads[w].pc \notin {"check", "cycle"}
          /\ threads[w].pc = "sleep" => now + d <= threads[w].wake_at
    /\ now' = now + d
    /\ lastOp' = <<"tick", 0>>
    /\ UNCHANGED <<notifVars, coordination_result>>
    /\ UNCHANGED <<gardens, tasks, generated_tasks, total_generated, run>>

\* generate_tasks_for_garden(garden_id): builds the task rows and returns them
Generate(garden_id) ==
    /\ generated_tasks' = GenerateTasksForGarden(garden_id, tasks)
    /\ lastOp' = <<"generate", garden_id>>
    /\ UNCHANGED <<notifVars, coordination_result>>
    /\ UNCHANGED <<now, gardens, tasks, total_generated, run>>

\* generate_tasks_for_all_gardens() run without interleaving
GenerateAll ==
    LET out == GenerateForAll(ActiveGardens, tasks, 0) IN
    /\ Len(out[1]) <= MaxTasks
    /\ tasks' = out[1]
    /\ total_generated' = out[2]
    /\ lastOp' = <<"generateAll", 0>>
    /\ UNCHANGED <<notifVars, coordination_result>>
    /\ UNCHANGED <<now, gardens, generated_tasks, run>>

\* a task typed in by the user (quick task dialog), named after a template
ManualTitles == { <<"Switch to Flowering Nutrients">> }

ManualTask(garden_id, title) ==
    [title |-> title, garden_id |-> garden_id, task_type |-> "general",
     priority |-> "medium", due_date |-> now + Day, estimated_duration |-> 0,
     is_completed |-> FALSE, created_date |-> now]

IsManual(task) == Len(task.title) = 1

UserAddsTask(garden_id, title) ==
    /\ Len(tasks) < MaxTasks
    /\ Cardinality({ i \in DOMAIN tasks : IsManual(tasks[i]) }) < MaxManualTasks
    /\ tasks' = Append(tasks, ManualTask(garden_id, title))
    /\ lastOp' = <<"addTask", garden_id>>
    /\ UNCHANGED <<notifVars, coordination_result>>
    /\ UNCHANGED <<now, gardens, generated_tasks, total_generated, run>>

Next ==
    \/ Tick(HalfDay, MaxNow)
    \/ \E g \in GardenIds : Generate(g)
    \/ GenerateAll
    \/ \E g \in GardenIds, title \in ManualTitles : UserAddsTask(g, title)

Spec == Init /\ [][Next]_vars

\* a row of another origin (an import, an older release) named after a
\* recurring template, whose created_date is not an ISO timestamp
ImportedTask(garden_id) ==
    [title |-> <<"Check Seed Germination">>, garden_id |-> garden_id,
     task_type |-> "general", priority |-> "medium", due_date |-> now + Day,
     estimated_duration |-> 0, is_completed |-> FALSE, created_date |-> Unparsable]

ImportTask(garden_id) ==
    /\ Len(tasks) < MaxTasks
    /\ Cardinality({ i \in DOMAIN tasks : IsManual(tasks[i]) }) < MaxManualTasks
    /\ tasks' = Append(tasks, ImportedTask(garden_id))
    /\ lastOp' = <<"importTask", garden_id>>
    /\ UNCHANGED <<notifVars, coordination_result>>
    /\ UNCHANGED <<now, gardens, generated_tasks, total_generated, run>>

NextImport ==
    \/ Tick(HalfDay, MaxNow)
    \/ \E g \in GardenIds : Generate(g)
    \/ GenerateAll
    \/ \E g \in GardenIds : ImportTask(g)

SpecImport == Init /\ [][NextImport]_vars

-----------------------------------------------------------------------------
(* generate_tasks_for_all_gardens step by step, one run per caller thread *)

\* the SELECT of the active gardens
AllBegin(c) ==
    /\ run[c].pc = "idle"
    /\ run' = [run EXCEPT ![c] = [pc |-> "loop", gardens_left |-> ActiveGardens,
                                    tasks_left |-> <<>>, total |-> 0]]
    /\ lastOp' = <<"begin", 0>>
    /\ UNCHANGED <<notifVars, coordination_result>>
    /\ UNCHANGED <<now, gardens, tasks, generated_tasks, total_generated>>

\* tasks = self.generate_tasks_for_garden(garden_id)
AllGenerate(c) ==
    /\ run[c].pc = "loop"
    /\ run[c].gardens_left # <<>>
    /\ run' = [run EXCEPT ![c].pc = "save",
                           ![c].gardens_left = Tail(@),
                           ![c].tasks_left =
                               GenerateTasksForGarden(Head(run[c].gardens_left), tasks)]
    /\ lastOp' = <<"generate", Head(run[c].gardens_left)>>
    /\ UNCHANGED <<notifVars, coordination_result>>
    /\ UNCHANGED <<now, gardens, tasks, generated_tasks, total_generated>>

\* for task in tasks: self._save_task_to_database(task); total_generated += 1
AllSave(c) ==
    /\ run[c].pc = "save"
    /\ IF run[c].tasks_left = <<>>
       THEN /\ run' = [run EXCEPT ![c].pc = "loop"]
            /\ UNCHANGED tasks
       ELSE /\ Len(tasks) < MaxTasks
            /\ tasks' = SaveTaskToDatabase(tasks, Head(run[c].tasks_left))
            /\ run' = [run EXCEPT ![c].tasks_left = Tail(@), ![c].total = @ + 1]
    /\ lastOp' = <<"save", 0>>
    /\ UNCHANGED <<notifVars, coordination_result>>
    /\ UNCHANGED <<now, gardens, generated_tasks, total_generated>>

\* return total_generated
AllReturn(c) ==
    /\ run[c].pc = "loop"
    /\ run[c].gardens_left = <<>>
    /\ total_generated' = run[c].total
    /\ run' = [run EXCEPT ![c] = IdleRun]
    /\ lastOp' = <<"generateAll", 0>>
    /\ UNCHANGED <<notifVars, coordination_result>>
    /\ UNCHANGED <<now, gardens, tasks, generated_tasks>>

NextConc ==
    \/ Tick(HalfDay, MaxNow)
    \/ \E c \in Callers : AllBegin(c)
    \/ \E c \in Callers : AllGenerate(c)
    \/ \E c \in Callers : AllSave(c)
    \/ \E c \in Callers : AllReturn(c)

SpecConc == Init /\ [][NextConc]_vars

\* the same loop step when the INSERT of _save_task_to_database raises: the
\* method logs and returns False, the caller ignores the value and counts
AllSaveFails(c) ==
    /\ run[c].pc = "save"
    /\ run[c].tasks_left # <<>>
    /\ run' = [run EXCEPT ![c].tasks_left = Tail(@), ![c].total = @ + 1]
    /\ lastOp' = <<"saveFailed", 0>>
    /\ UNCHANGED <<notifVars, coordination_result>>
    /\ UNCHANGED <<now, gardens, tasks, generated_tasks, total_generated>>

\* the daily timer alone, with a store whose writes may fail
NextWriteFault ==
    \/ Tick(HalfDay, MaxNow)
    \/ AllBegin("timer")
    \/ AllGenerate("timer")
    \/ AllSave("timer")
    \/ AllSaveFails("timer")
    \/ AllReturn("timer")

SpecWriteFault == Init /\ [][NextWriteFault]_vars

-----------------------------------------------------------------------------
(* Notifier: service, worker threads, preferences *)

BornThreads == { w \in ThreadIds : threads[w].pc # "unborn" }

\* the worker is at "while self.running", or its sleep has run out
AboutToCheck(w) ==
    \/ threads[w].pc = "check"
    \/ threads[w].pc = "sleep" /\ now >= threads[w].wake_at

\* start_notification_service
StartNotificationService ==
    /\ IF running
       THEN UNCHANGED <<running, notification_thread, threads>>
       ELSE /\ Cardinality(BornThreads) < MaxThreads
            /\ LET w == Cardinality(BornThreads) + 1 IN
               /\ running' = TRUE
               /\ threads' = [threads EXCEPT ![w] = [pc |-> "check", wake_at |-> 0]]
               /\ notification_thread' = w
    /\ UNCHANGED <<now, genVars, storeVars, utc_offset, preferences, notification_queue>>

\* stop_notification_service: clear the flag, then join(timeout=5) the thread
\* of the last start.  A scan cycle does not read the flag, so a stop during
\* a cycle is the stop taken right after it.  A worker about to test the
\* flag exits inside the join; a worker inside time.sleep(60) outlasts the
\* 5 seconds and the join returns with the thread alive.
StopNotificationService ==
    /\ notification_thread # 0 => threads[notification_thread].pc # "cycle"
    /\ running' = FALSE
    /\ threads' = IF notification_thread # 0 /\ AboutToCheck(notification_thread)
                  THEN [threads EXCEPT ![notification_thread].pc = "exited"]
                  ELSE threads
    /\ UNCHANGED <<now, genVars, storeVars, utc_offset, preferences, notification_queue,
                   notification_thread>>

\* while self.running:
WorkerCheck(w) ==
    /\ threads[w].pc = "check"
    /\ threads' = [threads EXCEPT ![w].pc = IF running THEN "cycle" ELSE "exited"]
    /\ UNCHANGED <<now, genVars, storeVars, utc_offset, preferences, notification_queue,
                   running, notification_thread>>

\* the four scans, the queue processing, then time.sleep(60) begins
WorkerCycle(w) ==
    /\ threads[w].pc = "cycle"
    /\ Len(WorkerPass[1]) <= MaxQueue
    /\ Len(WorkerPass[2]) <= MaxHistory
    /\ notification_queue' = WorkerPass[1]
    /\ notification_history' = WorkerPass[2]
    /\ gardens' = WorkerPass[3]
    /\ threads' = [threads EXCEPT ![w] = [pc |-> "sleep", wake_at |-> now + SleepMinutes]]
    /\ UNCHANGED <<now, genVars, tasks, inventory_items, user_settings, utc_offset,
                   preferences, running, notification_thread>>

\* time.sleep(60) returns
WorkerWake(w) ==
    /\ threads[w].pc = "sleep"
    /\ now >= threads[w].wake_at
    /\ threads' = [threads EXCEPT ![w].pc = "check"]
    /\ UNCHANGED <<now, genVars, storeVars, utc_offset, preferences, notification_queue,
                   running, notification_thread>>

\* update_preferences(new_preferences): write the rows, reload
UpdatePreferences(new_preferences) ==
    /\ user_settings' = WriteSettings(user_settings, new_preferences)
    /\ preferences' = LoadPreferences(user_settings')
    /\ UNCHANGED <<now, genVars, gardens, tasks, inventory_items, notification_history,
                   utc_offset, notification_queue, running, notification_thread, threads>>

PreferenceEdits ==
    { [k \in {"enabled"} |-> <<"bool", FALSE>>],
      [k \in {"quiet_start"} |-> <<"int", 6>>] }

\* send_manual_notification(title, message, priority)
SendManualNotification(priority) ==
    /\ Len(notification_history) < MaxHistory
    /\ Cardinality({ h \in DOMAIN notification_history :
            notification_history[h].notification_type = "system_alert" }) < MaxManualAlerts
    /\ notification_history' =
          SendNotification(notification_history,
                           Notification("system_alert", priority, 0, 0, ""))
    /\ UNCHANGED <<now, genVars, gardens, tasks, inventory_items, user_settings,
                   utc_offset, notifierVars>>

-----------------------------------------------------------------------------
(* Notifier: initial states and specification *)

\* the instants at which observation starts: two minutes before 07:00,
\* 08:00 and 22:00 local time
NotifierStarts ==
    { StartTime + 7 * Hour - 2, StartTime + 8 * Hour - 2, StartTime + 22 * Hour - 2 }

ObservationStart == CHOOSE s \in NotifierStarts :
    s <= now /\ \A r \in NotifierStarts : r <= now => r <= s

UtcOffsets == { 0, 0 - 5 * Hour }

StoredTask(garden_id, priority, due_date, created_date) ==
    [title |-> <<"Refill reservoir">>, garden_id |-> garden_id, task_type |-> "general",
     priority |-> priority, due_date |-> due_date, estimated_duration |-> 0,
     is_completed |-> FALSE, created_date |-> created_date]

InitNotifier ==
    \E start \in NotifierStarts, offset \in UtcOffsets :
        /\ now = start
        /\ utc_offset = offset
        /\ gardens = [g \in GardenIds |->
              IF g = 1 THEN GardenRow(1, "hydroponic", start + 1 - 7 * Day, TRUE)
              ELSE [GardenRow(2, "soil", start - 21 * Day, TRUE)
                        EXCEPT !.current_stage = "vegetative"]]
        /\ tasks = << StoredTask(1, "High", start - 13 * Hour, start - 14 * Hour),
                      StoredTask(2, "medium", start + 31, start - 14 * Hour) >>
        /\ inventory_items =
              << [name |-> "Nutrient A", current_quantity |-> 2, minimum_threshold |-> 5],
                 [name |-> "Perlite", current_quantity |-> 0, minimum_threshold |-> 5],
                 [name |-> "Net pots", current_quantity |-> 9, minimum_threshold |-> 5] >>
        /\ user_settings = DefaultSettings
        /\ notification_history = <<>>
        /\ preferences = LoadPreferences(DefaultSettings)
        /\ notification_queue = <<>>
        /\ running = FALSE
        /\ notification_thread = 0
        /\ threads = [w \in ThreadIds |-> UnbornThread]
        /\ lastOp = <<"none", 0>>
        /\ generated_tasks = <<>>
        /\ total_generated = 0
        /\ run = [c \in Callers |-> IdleRun]
        /\ coordination_result = NoResult

NextNotifier ==
    \/ Tick(SleepMinutes, ObservationStart + MaxMinutes)
    \/ StartNotificationService
    \/ StopNotificationService
    \/ \E w \in ThreadIds : WorkerCheck(w)
    \/ \E w \in ThreadIds : WorkerCycle(w)
    \/ \E w \in ThreadIds : WorkerWake(w)
    \/ \E edit \in PreferenceEdits : UpdatePreferences(edit)
    \/ SendManualNotification("medium")

SpecNotifier == InitNotifier /\ [][NextNotifier]_vars

\* another party (the settings dialog, a second handle on the database)
\* writes notification_* rows of user_settings itself
StoreWritesSettings(new_preferences) ==
    /\ user_settings' = WriteSettings(user_settings, new_preferences)
    /\ UNCHANGED <<now, genVars, gardens, tasks, inventory_items, notification_history,
                   utc_offset, preferences, notification_queue, running,
                   notification_thread, threads>>

NextSettings ==
    \/ NextNotifier
    \/ \E edit \in PreferenceEdits : StoreWritesSettings(edit)

SpecSettings == InitNotifier /\ [][NextSettings]_vars

\* a store whose inventory holds more low items than one cycle delivers,
\* observed from 21:59 local time, one minute before quiet hours begin
LowItems ==
    [k \in 1..(PerCycleLimit + 1) |->
        [name |-> <<"Nutrient", k>>, current_quantity |-> 1, minimum_threshold |-> 5]]

InitBacklog ==
    \E offset \in UtcOffsets :
        /\ now = StartTime + 22 * Hour - 1
        /\ utc_offset = offset
        /\ gardens = [g \in GardenIds |->
              IF g = 1 THEN GardenRow(1, "hydroponic", now - Day, TRUE)
              ELSE [GardenRow(2, "soil", now - 22 * Day, TRUE)
                        EXCEPT !.current_stage = "vegetative"]]
        /\ tasks = <<>>
        /\ inventory_items = LowItems
        /\ user_settings = DefaultSettings
        /\ notification_history = <<>>
        /\ preferences = LoadPreferences(DefaultSettings)
        /\ notification_queue = <<>>
        /\ running = FALSE
        /\ notification_thread = 0
        /\ threads = [w \in ThreadIds |-> UnbornThread]
        /\ lastOp = <<"none", 0>>
        /\ generated_tasks = <<>>
        /\ total_generated = 0
        /\ run = [c \in Callers |-> IdleRun]
        /\ coordination_result = NoResult

SpecBacklog == InitBacklog /\ [][NextNotifier]_vars

-----------------------------------------------------------------------------
(* Notifier over a drawn inventory *)

MaxStock == 3

\* two items with threshold 2 and any quantity from empty to above it
InitStock ==
    /\ now = StartTime + 8 * Hour - 1
    /\ utc_offset = 0
    /\ gardens = [g \in GardenIds |->
          IF g = 1 THEN GardenRow(1, "hydroponic", now - Day, TRUE)
          ELSE [GardenRow(2, "soil", now - 22 * Day, TRUE)
                    EXCEPT !.current_stage = "vegetative"]]
    /\ tasks = <<>>
    /\ \E a, b \in 0..MaxStock :
          inventory_items =
              << [name |-> "Nutrient A", current_quantity |-> a, minimum_threshold |-> 2],
                 [name |-> "Perlite", current_quantity |-> b, minimum_threshold |-> 2] >>
    /\ user_settings = DefaultSettings
    /\ notification_history = <<>>
    /\ preferences = LoadPreferences(DefaultSettings)
    /\ notification_queue = <<>>
    /\ running = FALSE
    /\ notification_thread = 0
    /\ threads = [w \in ThreadIds |-> UnbornThread]
    /\ lastOp = <<"none", 0>>
    /\ generated_tasks = <<>>
    /\ total_generated = 0
    /\ run = [c \in Callers |-> IdleRun]
    /\ coordination_result = NoResult

\* the grower uses one unit of an item (inventory tab)
UseStock(i) ==
    /\ inventory_items[i].current_quantity > 0
    /\ inventory_items' = [inventory_items EXCEPT ![i].current_quantity = @ - 1]
    /\ UNCHANGED <<now, genVars, gardens, tasks, user_settings, notification_history,
                   utc_offset, preferences, notification_queue, running,
                   notification_thread, threads>>

NextStock ==
    \/ Tick(SleepMinutes, StartTime + 8 * Hour - 1 + MaxMinutes)
    \/ StartNotificationService
    \/ \E w \in ThreadIds : WorkerCheck(w)
    \/ \E w \in ThreadIds : WorkerCycle(w)
    \/ \E w \in ThreadIds : WorkerWake(w)
    \/ \E i \in DOMAIN inventory_items : UseStock(i)

SpecStock == InitStock /\ [][NextStock]_vars

-----------------------------------------------------------------------------
(* Notifier from the end of quiet hours on, with a fair worker *)

DeliveryMinutes == 3

\* what the scans find: an overdue task, a task inside the reminder window,
\* both, or one low item
DeliverySources == { {"overdue"}, {"reminder"}, {"overdue", "reminder"}, {"stock"} }

\* 07:58 local time, two minutes before the quiet hours end
InitDelivery ==
    /\ now = StartTime + 8 * Hour - 2
    /\ utc_offset = 0
    /\ gardens = [g \in GardenIds |->
          IF g = 1 THEN GardenRow(1, "hydroponic", now - Day, TRUE)
          ELSE [GardenRow(2, "soil", now - 22 * Day, TRUE)
                    EXCEPT !.current_stage = "vegetative"]]
    /\ \E sources \in DeliverySources :
          /\ tasks = (IF "overdue" \in sources
                      THEN << StoredTask(1, "High", now - 13 * Hour, now - Day) >>
                      ELSE <<>>)
                     \o (IF "reminder" \in sources
                         THEN << StoredTask(2, "High", now + 20, now - Day) >>
                         ELSE <<>>)
          /\ inventory_items =
                IF "stock" \in sources
                THEN << [name |-> "Nutrient A", current_quantity |-> 1,
                         minimum_threshold |-> 5] >>
                ELSE <<>>
    /\ user_settings = DefaultSettings
    /\ notification_history = <<>>
    /\ preferences = LoadPreferences(DefaultSettings)
    /\ notification_queue = <<>>
    /\ running = FALSE
    /\ notification_thread = 0
    /\ threads = [w \in ThreadIds |-> UnbornThread]
    /\ lastOp = <<"none", 0>>
    /\ generated_tasks = <<>>
    /\ total_generated = 0
    /\ run = [c \in Callers |-> IdleRun]
    /\ coordination_result = NoResult

DeliveryTick == Tick(SleepMinutes, StartTime + 8 * Hour - 2 + DeliveryMinutes)

NextDelivery ==
    \/ DeliveryTick
    \/ StartNotificationService
    \/ \E w \in ThreadIds : WorkerCheck(w)
    \/ \E w \in ThreadIds : WorkerCycle(w)
    \/ \E w \in ThreadIds : WorkerWake(w)

\* the service is started, the clock advances, and a worker thread that can
\* take a step takes it
SpecDelivery ==
    /\ InitDelivery
    /\ [][NextDelivery]_vars
    /\ WF_vars(DeliveryTick)
    /\ WF_vars(StartNotificationService /\ ~ running)
    /\ \A w \in ThreadIds :
          WF_vars(WorkerCheck(w)) /\ WF_vars(WorkerCycle(w)) /\ WF_vars(WorkerWake(w))

-----------------------------------------------------------------------------
(* Notifier with the master switch drawn *)

\* two minutes before the quiet hours end, and two minutes before they begin
SwitchStarts == { StartTime + 8 * Hour - 2, StartTime + 22 * Hour - 2 }

\* a task 13 hours overdue and a task due in 20 minutes; the stored
\* notification_enabled is 'true' or 'false' when the notifier is constructed
InitSwitch ==
    \E start \in SwitchStarts, enabled \in {"true", "false"} :
        /\ now = start
        /\ utc_offset = 0
        /\ gardens = [g \in GardenIds |->
              IF g = 1 THEN GardenRow(1, "hydroponic", start - Day, TRUE)
              ELSE [GardenRow(2, "soil", start - 22 * Day, TRUE)
                        EXCEPT !.current_stage = "vegetative"]]
        /\ tasks = << StoredTask(1, "High", start - 13 * Hour, start - Day),
                      StoredTask(2, "High", start + 20, start - Day) >>
        /\ inventory_items = <<>>
        /\ user_settings = [k \in {"notification_enabled"} |-> enabled]
        /\ notification_history = <<>>
        /\ preferences = LoadPreferences(user_settings)
        /\ notification_queue = <<>>
        /\ running = FALSE
        /\ notification_thread = 0
        /\ threads = [w \in ThreadIds |-> UnbornThread]
        /\ lastOp = <<"none", 0>>
        /\ generated_tasks = <<>>
        /\ total_generated = 0
        /\ run = [c \in Callers |-> IdleRun]
        /\ coordination_result = NoResult

NextSwitch ==
    \/ \E start \in SwitchStarts : now >= start /\ Tick(SleepMinutes, start + MaxMinutes)
    \/ StartNotificationService
    \/ StopNotificationService
    \/ \E w \in ThreadIds : WorkerCheck(w)
    \/ \E w \in ThreadIds : WorkerCycle(w)
    \/ \E w \in ThreadIds : WorkerWake(w)

SpecSwitch == InitSwitch /\ [][NextSwitch]_vars

-----------------------------------------------------------------------------
(* Notifier over gardens with a drawn stored stage *)

\* GrowthStage from germination on, in growing order
StageOrder == << "germination", "seedling", "vegetative", "flowering", "harvest", "curing" >>

StageRank(stage) == CHOOSE i \in DOMAIN StageOrder : StageOrder[i] = stage

\* one minute before the seedling threshold, mid-vegetative, past the last threshold
GrowthAges == { 7 * Day - 1, 30 * Day, 120 * Day }

\* garden 1 is stored with any stage (the stage column is free text that the
\* garden dialogs write) at one of the ages; garden 2 is a day old; the stored
\* notification_growth is 'true' or 'false' when the notifier is constructed
InitGrowth ==
    \E stage \in { StageOrder[i] : i \in DOMAIN StageOrder }, age \in GrowthAges,
       growth \in {"true", "false"} :
        /\ now = StartTime + 12 * Hour
        /\ utc_offset = 0
        /\ gardens = [g \in GardenIds |->
              IF g = 1
              THEN [GardenRow(1, "hydroponic", StartTime + 12 * Hour - age, TRUE)
                        EXCEPT !.current_stage = stage]
              ELSE GardenRow(2, "soil", StartTime + 12 * Hour - Day, TRUE)]
        /\ tasks = <<>>
        /\ inventory_items = <<>>
        /\ user_settings = [k \in {"notification_growth"} |-> growth]
        /\ notification_history = <<>>
        /\ preferences = LoadPreferences(user_settings)
        /\ notification_queue = <<>>
        /\ running = FALSE
        /\ notification_thread = 0
        /\ threads = [w \in ThreadIds |-> UnbornThread]
        /\ lastOp = <<"none", 0>>
        /\ generated_tasks = <<>>
        /\ total_generated = 0
        /\ run = [c \in Callers |-> IdleRun]
        /\ coordination_result = NoResult

NextGrowth ==
    \/ Tick(SleepMinutes, StartTime + 12 * Hour + MaxMinutes)
    \/ StartNotificationService
    \/ StopNotificationService
    \/ \E w \in ThreadIds : WorkerCheck(w)
    \/ \E w \in ThreadIds : WorkerCycle(w)
    \/ \E w \in ThreadIds : WorkerWake(w)

SpecGrowth == InitGrowth /\ [][NextGrowth]_vars

-----------------------------------------------------------------------------
(* Notifier over a drawn overdue task *)

\* how long the task has been due when the notifier is constructed
Latenesses == { 1 * Hour, 2 * Hour - 1, 2 * Hour, 12 * Hour - 1, 12 * Hour }

InitOverdue ==
    \E late \in Latenesses, offset \in UtcOffsets :
        /\ now = StartTime + 14 * Hour
        /\ utc_offset = offset
        /\ gardens = [g \in GardenIds |->
              IF g = 1 THEN GardenRow(1, "hydroponic", now - Day, TRUE)
              ELSE [GardenRow(2, "soil", now - 22 * Day, TRUE)
                        EXCEPT !.current_stage = "vegetative"]]
        /\ tasks = << StoredTask(1, "High", now - late, now - Day) >>
        /\ inventory_items = <<>>
        /\ user_settings = DefaultSettings
        /\ notification_history = <<>>
        /\ preferences = LoadPreferences(DefaultSettings)
        /\ notification_queue = <<>>
        /\ running = FALSE
        /\ notification_thread = 0
        /\ threads = [w \in ThreadIds |-> UnbornThread]
        /\ lastOp = <<"none", 0>>
        /\ generated_tasks = <<>>
        /\ total_generated = 0
        /\ run = [c \in Callers |-> IdleRun]
        /\ coordination_result = NoResult

NextOverdue ==
    \/ Tick(SleepMinutes, StartTime + 14 * Hour + MaxMinutes)
    \/ StartNotificationService
    \/ \E w \in ThreadIds : WorkerCheck(w)
    \/ \E w \in ThreadIds : WorkerCycle(w)
    \/ \E w \in ThreadIds : WorkerWake(w)

SpecOverdue == InitOverdue /\ [][NextOverdue]_vars

-----------------------------------------------------------------------------
(* Stage derivation over the whole range of ages *)

MaxAge == 113

\* one hydroponic garden planted 0..MaxAge whole days, or that and half a
\* day, before the first observed instant
InitStage ==
    /\ now = StartTime
    /\ \E age \in 0..MaxAge, part \in {0, HalfDay} :
          gardens = [g \in GardenIds |->
              IF g = 1 THEN GardenRow(1, "hydroponic", StartTime - age * Day - part, TRUE)
              ELSE GardenRow(2, "soil", StartTime, FALSE)]
    /\ tasks = <<>>
    /\ lastOp = <<"none", 0>>
    /\ generated_tasks = <<>>
    /\ total_generated = 0
    /\ run = [c \in Callers |-> IdleRun]
    /\ coordination_result = NoResult
    /\ utc_offset = 0
    /\ inventory_items = <<>>
    /\ user_settings = DefaultSettings
    /\ notification_history = <<>>
    /\ preferences = LoadPreferences(DefaultSettings)
    /\ notification_queue = <<>>
    /\ running = FALSE
    /\ notification_thread = 0
    /\ threads = [w \in ThreadIds |-> UnbornThread]

NextStage ==
    \/ Tick(HalfDay, MaxNow)
    \/ \E g \in GardenIds : Generate(g)

SpecStage == InitStage /\ [][NextStage]_vars

-----------------------------------------------------------------------------
(* Coordinator over a drawn store *)

MaxCoordTasks == 3

\* a coordinator that saved the resolved due dates of the fetched rows
Coordinate_WriteBack(target_date) ==
    LET pending_tasks == GetPendingTasksForDate(target_date)
        resolved_tasks == ResolveConflicts(pending_tasks, DetectConflicts(pending_tasks))
    IN /\ coordination_result' = CoordinateDailyTasks(target_date)
       /\ lastOp' = <<"coordinate", target_date>>
       /\ tasks' = [i \in DOMAIN tasks |->
               IF \E k \in DOMAIN resolved_tasks : resolved_tasks[k].id = i
               THEN [tasks[i] EXCEPT !.due_date =
                       resolved_tasks[CHOOSE k \in DOMAIN resolved_tasks :
                                          resolved_tasks[k].id = i].due_date]
               ELSE tasks[i]]
       /\ UNCHANGED <<now, gardens, generated_tasks, total_generated, run>>
       /\ UNCHANGED notifVars

\* the harness asks for the plan of a date
Coordinate(target_date) ==
    /\ coordination_result' = CoordinateDailyTasks(target_date)
    /\ lastOp' = <<"coordinate", target_date>>
    /\ UNCHANGED <<now, gardens, tasks, generated_tasks, total_generated, run>>
    /\ UNCHANGED notifVars

PendingTask(task_type, garden_id, priority, due_date, estimated_duration) ==
    [title |-> <<task_type, " - ", GardenName(garden_id)>>, garden_id |-> garden_id,
     task_type |-> task_type, priority |-> priority, due_date |-> due_date,
     estimated_duration |-> estimated_duration,
     is_completed |-> FALSE, created_date |-> StartTime - Day]

\* the task shapes a drawn store is made of, all due on the first day
CoordCatalogue ==
    << PendingTask("feeding", 1, "High", StartTime + 9 * Hour, 30),
       PendingTask("feeding", 2, "Medium", StartTime + 9 * Hour, 30),
       PendingTask("feeding", 2, "High", StartTime + 9 * Hour + 30, 30),
       PendingTask("feeding", 1, "High", StartTime + 10 * Hour, 30),
       PendingTask("feeding", 1, "High", StartTime + 8 * Hour, 30),
       PendingTask("watering", 1, "Medium", StartTime + 23 * Hour + 30, 30),
       PendingTask("watering", 2, "Low", StartTime + 23 * Hour + 30, 30),
       PendingTask("pruning", 1, "Medium", StartTime + 9 * Hour, 30),
       PendingTask("pruning", 2, "High", StartTime + 9 * Hour + 40, 30) >>

\* stores of up to MaxCoordTasks rows, inserted in catalogue order; a shape
\* may be stored more than once
CoordStores ==
    LET picks == UNION { [1..n -> DOMAIN CoordCatalogue] : n \in 0..MaxCoordTasks }
        ordered == { f \in picks : \A i, j \in DOMAIN f : i < j => f[i] <= f[j] }
    IN { [i \in DOMAIN f |-> CoordCatalogue[f[i]]] : f \in ordered }

\* both gardens without a location, or each in a room of its own
CoordLocations ==
    { [g \in GardenIds |-> NullLocation],
      [g \in GardenIds |-> IF g = 1 THEN "Tent A" ELSE "Tent B"] }

CoordDates == { StartTime, StartTime + Day }

InitCoord ==
    /\ now = StartTime
    /\ \E locations \in CoordLocations :
          gardens = [g \in GardenIds |->
              [GardenRow(g, "hydroponic", StartTime - 30 * Day, TRUE)
                  EXCEPT !.location = locations[g]]]
    /\ tasks \in CoordStores
    /\ lastOp = <<"none", 0>>
    /\ generated_tasks = <<>>
    /\ total_generated = 0
    /\ run = [c \in Callers |-> IdleRun]
    /\ coordination_result = NoResult
    /\ utc_offset = 0
    /\ inventory_items = <<>>
    /\ user_settings = DefaultSettings
    /\ notification_history = <<>>
    /\ preferences = LoadPreferences(DefaultSettings)
    /\ notification_queue = <<>>
    /\ running = FALSE
    /\ notification_thread = 0
    /\ threads = [w \in ThreadIds |-> UnbornThread]

NextCoord ==
    \/ Tick(HalfDay, MaxNow)
    \/ \E target_date \in CoordDates : Coordinate(target_date)

SpecCoord == InitCoord /\ [][NextCoord]_vars

\* the same call while the store cannot be read
CoordinateReadFails(target_date) ==
    /\ coordination_result' = PlanFor(FetchFailed, target_date)
    /\ lastOp' = <<"coordinateReadFailed", target_date>>
    /\ UNCHANGED <<now, gardens, tasks, generated_tasks, total_generated, run>>
    /\ UNCHANGED notifVars

NextCoordFault ==
    \/ NextCoord
    \/ \E target_date \in CoordDates : CoordinateReadFails(target_date)

SpecCoordFault == InitCoord /\ [][NextCoordFault]_vars

\* two physical-presence tasks, one per garden, each garden in a room of its
\* own or both without a location; priorities and due times drawn
SpaceDues == { StartTime + 9 * Hour, StartTime + 9 * Hour + 30, StartTime + 9 * Hour + 40 }

InitSpace ==
    /\ now = StartTime
    /\ \E locations \in CoordLocations :
          gardens = [g \in GardenIds |->
              [GardenRow(g, "hydroponic", StartTime - 30 * Day, TRUE)
                  EXCEPT !.location = locations[g]]]
    /\ \E p1, p2 \in {"High", "Medium"}, d1, d2 \in SpaceDues :
          tasks = << PendingTask("pruning", 1, p1, d1, 30),
                     PendingTask("pruning", 2, p2, d2, 30) >>
    /\ lastOp = <<"none", 0>>
    /\ generated_tasks = <<>>
    /\ total_generated = 0
    /\ run = [c \in Callers |-> IdleRun]
    /\ coordination_result = NoResult
    /\ utc_offset = 0
    /\ inventory_items = <<>>
    /\ user_settings = DefaultSettings
    /\ notification_history = <<>>
    /\ preferences = LoadPreferences(DefaultSettings)
    /\ notification_queue = <<>>
    /\ running = FALSE
    /\ notification_thread = 0
    /\ threads = [w \in ThreadIds |-> UnbornThread]

SpecSpace == InitSpace /\ [][NextCoord]_vars

\* a morning of up to MaxBatchTasks ten-minute tasks due one after another,
\* spacing minutes apart, inserted in due order
MaxBatchTasks == 7

BatchSpacings == { 10, 50 }

\* where the tasks are: all in garden 1, every second one in garden 2, or
\* only the first one in garden 2
GardenPatterns == { "one", "alternate", "first_apart" }

MorningTask(k, spacing, garden_pattern, both_types, both_priorities) ==
    PendingTask(IF both_types /\ k % 2 = 0 THEN "watering" ELSE "feeding",
                IF \/ garden_pattern = "alternate" /\ k % 2 = 0
                   \/ garden_pattern = "first_apart" /\ k = 1
                THEN 2 ELSE 1,
                IF both_priorities /\ k % 3 = 0 THEN "Medium" ELSE "High",
                StartTime + 8 * Hour + spacing * (k - 1),
                10)

InitBatch ==
    /\ now = StartTime
    /\ \E locations \in CoordLocations :
          gardens = [g \in GardenIds |->
              [GardenRow(g, "hydroponic", StartTime - 30 * Day, TRUE)
                  EXCEPT !.location = locations[g]]]
    /\ \E n \in 0..MaxBatchTasks, spacing \in BatchSpacings,
          garden_pattern \in GardenPatterns, both_types, both_priorities \in BOOLEAN :
          tasks = [k \in 1..n |->
                      MorningTask(k, spacing, garden_pattern, both_types, both_priorities)]
    /\ lastOp = <<"none", 0>>
    /\ generated_tasks = <<>>
    /\ total_generated = 0
    /\ run = [c \in Callers |-> IdleRun]
    /\ coordination_result = NoResult
    /\ utc_offset = 0
    /\ inventory_items = <<>>
    /\ user_settings = DefaultSettings
    /\ notification_history = <<>>
    /\ preferences = LoadPreferences(DefaultSettings)
    /\ notification_queue = <<>>
    /\ running = FALSE
    /\ notification_thread = 0
    /\ threads = [w \in ThreadIds |-> UnbornThread]

SpecBatch == InitBatch /\ [][NextCoord]_vars

-----------------------------------------------------------------------------
(* Properties of the generator *)

Catalogue(g) == TaskTemplates(gardens[g].growing_method)

TemplatesOf(g) == { Catalogue(g)[i] : i \in DOMAIN Catalogue(g) }

\* the rows of garden g synthesised from template t
TasksFrom(g, t) ==
    { i \in DOMAIN tasks : /\ tasks[i].garden_id = g
                            /\ tasks[i].title = TaskTitle(t, gardens[g]) }

\* a hydroponic garden planted age days ago with no task in the store
FreshHydroponic(g, age) ==
    /\ gardens[g].is_active
    /\ gardens[g].growing_method = "hydroponic"
    /\ gardens[g].planted_date = now - age * Day
    /\ \A i \in DOMAIN tasks : tasks[i].garden_id # g

\* C1: after generate(G) has returned, a second generate(G) with no time
\* elapsed and no store change returns the empty list.
C1_SecondGenerateEmpty ==
    \A g \in GardenIds :
        lastOp = <<"generate", g>> => GenerateTasksForGarden(g, tasks) = <<>>

\* C2: a one-shot template (frequency 0) has at most one task per garden in
\* the store, and is not eligible again once its task has been persisted.
C2_OneShotAtMostOnce ==
    \A g \in GardenIds : \A t \in TemplatesOf(g) :
        t.frequency_days = 0 =>
            /\ Cardinality(TasksFrom(g, t)) <= 1
            /\ TasksFrom(g, t) # {} =>
                  \A i \in DOMAIN GenerateTasksForGarden(g, tasks) :
                      GenerateTasksForGarden(g, tasks)[i].title # TaskTitle(t, gardens[g])

\* C3: two persisted generated tasks of one garden from the same recurring
\* template (frequency N > 0) were created at least N days apart.
C3_MinInterval ==
    \A g \in GardenIds : \A t \in TemplatesOf(g) :
        t.frequency_days > 0 =>
            \A i, j \in TasksFrom(g, t) :
                i # j => Abs(tasks[i].created_date - tasks[j].created_date)
                            >= t.frequency_days * Day

C3_Witness ==
    \E g \in GardenIds : \E t \in TemplatesOf(g) :
        /\ t.frequency_days > 0
        /\ Cardinality(TasksFrom(g, t)) >= 2

\* C4 (as claimed): the first generate for a hydroponic garden planted now,
\* with no prior tasks, returns a "Check Seed Germination" task (High) and a
\* "Maintain Germination Environment" task (Critical), both due now + 24h.
C4_FreshGardenBothTasks ==
    \A g \in GardenIds :
        (lastOp = <<"generate", g>> /\ FreshHydroponic(g, 0)) =>
            /\ \E i \in DOMAIN generated_tasks :
                  /\ generated_tasks[i].title[1] = "Check Seed Germination"
                  /\ generated_tasks[i].priority = "High"
                  /\ generated_tasks[i].due_date = now + Day
            /\ \E i \in DOMAIN generated_tasks :
                  /\ generated_tasks[i].title[1] = "Maintain Germination Environment"
                  /\ generated_tasks[i].priority = "Critical"
                  /\ generated_tasks[i].due_date = now + Day

\* C4 (amended): at 0 days since planting the first generate returns exactly
\* one task, "Maintain Germination Environment" (Critical, due now + 24h);
\* at 1 day since planting it returns "Check Seed Germination" (High) and
\* "Maintain Germination Environment" (Critical), both due now + 24h.
C4_FreshGardenFirstTasks ==
    \A g \in GardenIds :
        /\ (lastOp = <<"generate", g>> /\ FreshHydroponic(g, 0)) =>
              /\ Len(generated_tasks) = 1
              /\ generated_tasks[1].title =
                    <<"Maintain Germination Environment", " - ", gardens[g].name>>
              /\ generated_tasks[1].priority = "Critical"
              /\ generated_tasks[1].due_date = now + Day
        /\ (lastOp = <<"generate", g>> /\ FreshHydroponic(g, 1)) =>
              /\ Len(generated_tasks) = 2
              /\ generated_tasks[1].title =
                    <<"Check Seed Germination", " - ", gardens[g].name>>
              /\ generated_tasks[1].priority = "High"
              /\ generated_tasks[1].due_date = now + Day
              /\ generated_tasks[2].title =
                    <<"Maintain Germination Environment", " - ", gardens[g].name>>
              /\ generated_tasks[2].priority = "Critical"
              /\ generated_tasks[2].due_date = now + Day

C4_Witness ==
    \E g \in GardenIds :
        /\ lastOp = <<"generate", g>>
        /\ FreshHydroponic(g, 0)
        /\ generated_tasks # <<>>

\* C5: every task in the list generate(G) returned is a row of the store.
C5_ReturnedTasksPersisted ==
    \A g \in GardenIds :
        lastOp = <<"generate", g>> =>
            \A i \in DOMAIN generated_tasks :
                \E j \in DOMAIN tasks : tasks[j] = generated_tasks[i]

\* C6: whatever the interleaving of two generation runs, the store never
\* holds two tasks of one recurring template for one garden created less than
\* the frequency apart, nor two tasks of one one-shot template.
C6_SerialisedGeneration ==
    \A g \in GardenIds : \A t \in TemplatesOf(g) : \A i, j \in TasksFrom(g, t) :
        i # j =>
            /\ t.frequency_days > 0
            /\ Abs(tasks[i].created_date - tasks[j].created_date)
                   >= t.frequency_days * Day

-----------------------------------------------------------------------------
(* Properties of the notifier *)

\* C7: no two task-reminder rows of the history for one task are less than
\* 24 hours apart, and no two task-overdue rows for one task less than 4
\* hours apart.
C7_NoDuplicateRecords ==
    \A i, j \in DOMAIN notification_history :
        LET a == notification_history[i]
            b == notification_history[j]
        IN (i < j /\ a.notification_type = b.notification_type /\ a.task_id = b.task_id) =>
              /\ a.notification_type = "task_reminder" => Abs(b.sent_date - a.sent_date) >= Day
              /\ a.notification_type = "task_overdue" => Abs(b.sent_date - a.sent_date) >= 4 * Hour

\* C8: at most one worker thread is inside a scan cycle at any time.
C8_SingleWorker ==
    Cardinality({ w \in ThreadIds : threads[w].pc = "cycle" }) <= 1

\* stop() has been called since the start() that created thread w
StopRequested(w) ==
    /\ threads[w].pc \notin {"unborn", "exited"}
    /\ ~ running \/ notification_thread # w

\* C9: a worker for which stop() has been called begins no new scan cycle.
C9_NoCycleAfterStop ==
    [][ \A w \in ThreadIds :
          (StopRequested(w) /\ threads[w].pc # "cycle") => threads'[w].pc # "cycle" ]_vars

\* C10: the quiet-hours predicate is the hour interval [start, end), wrapping
\* midnight when start > end.
C10_QuietHoursHalfOpen ==
    LET current_hour == (now \div Hour) % 24
        start == preferences.quiet_hours_start
        end == preferences.quiet_hours_end
    IN IsQuietHours <=>
          IF start > end
          THEN current_hour >= start \/ current_hour < end
          ELSE start <= current_hour /\ current_hour < end

\* the notification types the worker's scans enqueue
ScanTypes == {"task_reminder", "task_overdue", "growth_milestone", "resource_alert"}

\* C11: no step hands a scan-generated notification to the transport (and
\* writes its history row) at a moment when quiet hours are active.
C11_NoDeliveryInQuietHours ==
    [][ \A i \in DOMAIN notification_history' :
          (i > Len(notification_history)
             /\ notification_history'[i].notification_type \in ScanTypes)
          => ~ IsQuietHours ]_vars

\* a worker thread runs the body of its loop in this step
CycleStep == \E w \in ThreadIds : threads[w].pc = "cycle" /\ threads'[w].pc = "sleep"

\* the stage the thresholds give for the garden's age on the local clock
AgeDerivedStage(g) == GetExpectedStage(now - gardens[g].planted_date)

\* growth-milestone notifications for garden g, queued or delivered
MilestonesFor(queue, history, g) ==
    Cardinality({ k \in DOMAIN queue :
        queue[k].type = "growth_milestone" /\ queue[k].garden_id = g })
    + Cardinality({ k \in DOMAIN history :
        history[k].notification_type = "growth_milestone" /\ history[k].garden_id = g })

\* C12: with notifications and milestones enabled, a cycle that finds an
\* active garden whose age-derived stage differs from its stored stage
\* produces exactly one growth-milestone notification for it and sets
\* current_stage to the age-derived stage with stage_start_date = now; a
\* cycle that finds the two stages equal produces no milestone for it.
C12_MilestoneOnce ==
    [][ (CycleStep /\ preferences.enabled /\ preferences.growth_milestones) =>
          \A g \in GardenIds :
              gardens[g].is_active =>
                  IF AgeDerivedStage(g) # gardens[g].current_stage
                  THEN /\ gardens'[g].current_stage = AgeDerivedStage(g)
                       /\ gardens'[g].stage_start_date = now
                       /\ MilestonesFor(notification_queue', notification_history', g)
                            = MilestonesFor(notification_queue, notification_history, g) + 1
                  ELSE MilestonesFor(notification_queue', notification_history', g)
                            = MilestonesFor(notification_queue, notification_history, g) ]_vars

\* the notifier has written a stage transition to the row of garden g
StageUpdated(g) == gardens[g].stage_start_date # gardens[g].planted_date

\* C13: a garden's stage has been updated by the notifier if and only if a
\* growth-milestone notification for it is queued or recorded.
C13_StageUpdateWithMilestone ==
    \A g \in GardenIds :
        StageUpdated(g) <=>
            MilestonesFor(notification_queue, notification_history, g) >= 1

\* C14: at every instant the stage the notifier's scan derives for a garden
\* is the stage the generator derives for it.
C14_SameStageDerivation ==
    \A g \in GardenIds :
        GetExpectedStage(UtcNow - gardens[g].planted_date)
            = DetermineGrowthStage(gardens[g])

-----------------------------------------------------------------------------
(* Daily coordinator *)

\* the tasks of the batches of a returned plan, as the result reports them
PlannedTasks ==
    IF coordination_result.kind # "plan" THEN <<>>
    ELSE Flatten([b \in DOMAIN coordination_result.batches |->
                      coordination_result.batches[b].tasks])

\* C16: for every batch returned by coordinate(d), every task in it has, as
\* the result reports it, a due-on inside [d, d + 1 day), the tasks shifted
\* by conflict resolution included.
C16_BatchTasksDueOnDate ==
    coordination_result.kind = "plan" =>
        \A k \in DOMAIN PlannedTasks :
            /\ PlannedTasks[k].due_date >= coordination_result.date
            /\ PlannedTasks[k].due_date < coordination_result.date + Day

\* the intervals [due-on, due-on + duration) of two tasks meet
TasksOverlap(task1, task2) ==
    /\ task1.due_date < task2.due_date + task2.estimated_duration
    /\ task2.due_date < task1.due_date + task1.estimated_duration

\* C17: in every plan returned by coordinate, after conflict resolution no
\* two tasks whose requirement lists share a resource tag overlap in time.
C17_NoOverlapAfterResolution ==
    \A i, j \in DOMAIN PlannedTasks :
        (i # j /\ ResourceTypesOf(PlannedTasks[i]) \cap ResourceTypesOf(PlannedTasks[j]) # {})
            => ~ TasksOverlap(PlannedTasks[i], PlannedTasks[j])

\* the store holds exactly two pending feeding tasks of different gardens,
\* both due at the same minute with 30 minutes each, i of higher priority
FeedingPair(i, j) ==
    /\ DOMAIN tasks = {i, j}
    /\ i # j
    /\ tasks[i].task_type = "feeding" /\ tasks[j].task_type = "feeding"
    /\ tasks[i].garden_id # tasks[j].garden_id
    /\ PriorityOrder(tasks[i].priority) > PriorityOrder(tasks[j].priority)
    /\ tasks[i].due_date = tasks[j].due_date
    /\ tasks[i].estimated_duration = 30 /\ tasks[j].estimated_duration = 30

\* C18: for two pending feeding tasks of different gardens and different
\* priorities, both due at 09:00 with 30 minutes each, coordinate shifts the
\* lower-priority task forward by exactly 30 minutes in total, leaves the
\* higher-priority task where it was, and the two then do not overlap.
C18_LowerPriorityShiftedThirty ==
    \A i, j \in DOMAIN tasks :
        (FeedingPair(i, j) /\ lastOp = <<"coordinate", Midnight(tasks[i].due_date)>>)
        => \E a, b \in DOMAIN PlannedTasks :
              /\ PlannedTasks[a].id = i
              /\ PlannedTasks[a].due_date = tasks[i].due_date
              /\ PlannedTasks[b].id = j
              /\ PlannedTasks[b].due_date = tasks[j].due_date + 30
              /\ ~ TasksOverlap(PlannedTasks[a], PlannedTasks[b])

\* two active gardens without a location and exactly three pending feeding
\* tasks of priority High, due 09:00, 09:30 and 10:00 on the day of date
ThreeFeedings(date) ==
    /\ \A g \in GardenIds : gardens[g].is_active /\ gardens[g].location = NullLocation
    /\ Len(tasks) = 3
    /\ \A i \in DOMAIN tasks :
          /\ tasks[i].task_type = "feeding"
          /\ tasks[i].priority = "High"
          /\ ~ tasks[i].is_completed
    /\ { tasks[i].due_date : i \in DOMAIN tasks }
          = { date + 9 * Hour, date + 9 * Hour + 30, date + 10 * Hour }

\* C19: for two active gardens with null location and three pending feeding
\* tasks of priority high due 09:00, 09:30 and 10:00 on the target date,
\* coordinate returns exactly one batch containing the 3 tasks, whose shared
\* resources include nutrients, water, equipment and time, whose efficiency
\* is at least 85, and whose reported optimal start is 09:00.
C19_OneBatchOfThree ==
    \A date \in CoordDates :
        (ThreeFeedings(date) /\ lastOp = <<"coordinate", date>>)
        => /\ coordination_result.kind = "plan"
           /\ Len(coordination_result.batches) = 1
           /\ { coordination_result.batches[1].tasks[k].id :
                   k \in DOMAIN coordination_result.batches[1].tasks } = DOMAIN tasks
           /\ {"nutrients", "water", "equipment", "time"}
                 \subseteq coordination_result.batches[1].shared_resources
           /\ coordination_result.batches[1].efficiency_score >= 850
           /\ coordination_result.batches[1].optimal_start_time = date + 9 * Hour

\* C20: coordinate is a function of the store and the target date: a call
\* never fails on ties in priority or compatibility score, and a call made
\* for the date of the plan already held, on the same store, returns that
\* same plan whatever the wall-clock time of the call.
C20_CoordinateDeterministic ==
    [][ \A target_date \in CoordDates :
            Coordinate(target_date) =>
                /\ coordination_result'.kind # "error"
                /\ (coordination_result.kind = "plan"
                        /\ coordination_result.date = target_date)
                    => coordination_result' = coordination_result ]_vars

\* C21: coordinate never writes to the store: after any invocation, those
\* that resolve conflicts and those that fail included, the tasks relation
\* is unchanged, every stored due-on included.
C21_CoordinateLeavesStore ==
    [][ lastOp'[1] = "coordinate" => (tasks' = tasks /\ gardens' = gardens) ]_vars

\* a plan is held in which conflict resolution moved a task away from its
\* stored due-on
C21_Witness ==
    /\ lastOp[1] = "coordinate"
    /\ coordination_result.kind = "plan"
    /\ coordination_result.conflicts_resolved # <<>>
    /\ \E k \in DOMAIN PlannedTasks :
          PlannedTasks[k].due_date # tasks[PlannedTasks[k].id].due_date

\* C22: when the store read of pending tasks fails during coordinate, the
\* call returns a fault result, distinguishable from the zero-filled result
\* returned when the date has no pending tasks.
C22_ReadFailureDistinguishable ==
    lastOp[1] = "coordinateReadFailed" => coordination_result # EmptyResult

-----------------------------------------------------------------------------
(* Notifier preferences *)

\* C23: notification preferences are re-read from the store at the start of
\* every notifier cycle, so a notification_* setting written to the store by
\* any party governs the next cycle: a cycle that starts while the store says
\* notifications are disabled delivers nothing.
C23_PreferencesReadEachCycle ==
    [][ (CycleStep
           /\ SettingsGet(user_settings, "notification_enabled", "true") = "false")
        => notification_history' = notification_history ]_vars

-----------------------------------------------------------------------------
(* Generator faults *)

\* C24: generateAll returns the number of tasks it actually created in the
\* store: a synthesised task is counted only when its row was written, so a
\* failed store write is visible in the result.
C24_CountsCreatedTasks ==
    [][ \A c \in Callers :
            run'[c].total > run[c].total => Len(tasks') = Len(tasks) + 1 ]_vars

\* C25: per-template failures are isolated in generate: when processing one
\* eligible template fails because its prior-task record cannot be
\* interpreted, the tasks of the other eligible templates of the same
\* invocation are still returned.
C25_TemplateFailureIsolated ==
    \A g \in GardenIds :
        (lastOp = <<"generate", g>> /\ GetGardenInfo(g) # {}) =>
            LET garden_info == CHOOSE row \in GetGardenInfo(g) : TRUE
                current_stage == DetermineGrowthStage(garden_info)
                days_since_planting == CalculateDaysSincePlanting(garden_info)
                templates == TaskTemplates(garden_info.growing_method)
            IN \A k \in DOMAIN templates :
                  (/\ ~ TemplateRaises(templates[k], current_stage,
                                       days_since_planting, g, tasks)
                   /\ ShouldGenerateTask(templates[k], current_stage,
                                         days_since_planting, g, tasks))
                  => \E i \in DOMAIN generated_tasks :
                        generated_tasks[i].title = TaskTitle(templates[k], garden_info)

-----------------------------------------------------------------------------
(* Notifier scans *)

\* the resource alerts waiting in queue or delivered in history
ResourceAlerts(queue, history) ==
    Cardinality({ k \in DOMAIN queue : queue[k].type = "resource_alert" })
    + Cardinality({ k \in DOMAIN history :
          history[k].notification_type = "resource_alert" })

\* low stock: 0 < current quantity <= minimum threshold
LowStock(item) ==
    0 < item.current_quantity /\ item.current_quantity <= item.minimum_threshold

\* C26: in one notifier cycle the resource scan enqueues exactly one
\* resource-alert notification of priority high for each inventory item
\* with 0 < current quantity <= minimum threshold, and none for an item
\* whose quantity is 0 or above its threshold.
C26_OneAlertPerLowItem ==
    [][ CycleStep =>
          LET scanned == CheckResourceAlerts(notification_queue)
              added == SubSeq(scanned, Len(notification_queue) + 1, Len(scanned))
          IN /\ \A i \in DOMAIN inventory_items :
                   Cardinality({ k \in DOMAIN added :
                       /\ added[k].type = "resource_alert"
                       /\ added[k].priority = "high"
                       /\ added[k].resource_name = inventory_items[i].name })
                     = IF LowStock(inventory_items[i]) THEN 1 ELSE 0
             /\ ResourceAlerts(notification_queue', notification_history')
                   = ResourceAlerts(notification_queue, notification_history)
                     + Cardinality({ i \in DOMAIN inventory_items :
                                         LowStock(inventory_items[i]) })
             /\ \A k \in DOMAIN notification_history' :
                   notification_history'[k].notification_type = "resource_alert"
                       => notification_history'[k].priority = "high" ]_vars

\* a cycle has alerted for an item exactly at its threshold while the other
\* item, alerted for in an earlier cycle, has since run out
C26_Witness ==
    /\ inventory_items[1].current_quantity = inventory_items[1].minimum_threshold
    /\ inventory_items[2].current_quantity = 0
    /\ ResourceAlerts(notification_queue, notification_history) = 3
    /\ \E w \in ThreadIds : threads[w].pc = "sleep"

\* C27: an overdue notification's priority is determined by the task's
\* lateness (now minus due-on): medium below 2 hours, high from 2 hours to
\* below 12 hours, critical from 12 hours on (exactly 12 hours is critical).
C27_PriorityByLateness ==
    [][ CycleStep =>
          LET scanned == CheckOverdueTasks(notification_queue, notification_history)
              added == SubSeq(scanned, Len(notification_queue) + 1, Len(scanned))
          IN \A k \in DOMAIN added :
                added[k].type = "task_overdue" =>
                    LET lateness == now - tasks[added[k].task_id].due_date
                    IN added[k].priority =
                          IF lateness < 2 * Hour THEN "medium"
                          ELSE IF lateness < 12 * Hour THEN "high"
                          ELSE "critical" ]_vars

-----------------------------------------------------------------------------
(* Space conflicts *)

\* stored tasks i and j need presence in different rooms, i is due first and
\* ends before j is due, with less than the travel time in between
SpaceConflictPair(i, j) ==
    /\ tasks[i].task_type \in PhysicalTaskTypes
    /\ tasks[j].task_type \in PhysicalTaskTypes
    /\ gardens[tasks[i].garden_id].location # NullLocation
    /\ gardens[tasks[j].garden_id].location # NullLocation
    /\ gardens[tasks[i].garden_id].location # gardens[tasks[j].garden_id].location
    /\ tasks[i].due_date + tasks[i].estimated_duration <= tasks[j].due_date
    /\ tasks[j].due_date - (tasks[i].due_date + tasks[i].estimated_duration) < TravelMinutes

\* C29: when a space conflict between two physical-presence tasks is
\* resolved, the task shifted forward by 15 minutes is the chronologically
\* later of the two, whatever their positions in the fetched task list, and
\* the earlier task's due-on is unchanged.
C29_LaterTaskShifted ==
    \A i, j \in DOMAIN tasks :
        (/\ SpaceConflictPair(i, j)
         /\ Len(tasks) = 2
         /\ lastOp = <<"coordinate", Midnight(tasks[i].due_date)>>
         /\ coordination_result.kind = "plan")
        => \E a, b \in DOMAIN PlannedTasks :
              /\ PlannedTasks[a].id = i
              /\ PlannedTasks[a].due_date = tasks[i].due_date
              /\ PlannedTasks[b].id = j
              /\ PlannedTasks[b].due_date = tasks[j].due_date + 15

-----------------------------------------------------------------------------
(* Greedy batching *)

\* C28: in every round of greedy batching the seed is a task of the highest
\* priority among the remaining tasks and, among the remaining tasks of
\* that priority, the one with the earliest due-on.  The tasks of a batch
\* were all remaining in the round that made it, and in the first round
\* every planned task was remaining.
C28_SeedHighestPriorityEarliestDue ==
    coordination_result.kind = "plan" =>
        LET batches == coordination_result.batches
            Leads(seed_task, t) ==
                \/ PriorityOrder(seed_task.priority) > PriorityOrder(t.priority)
                \/ /\ PriorityOrder(seed_task.priority) = PriorityOrder(t.priority)
                   /\ seed_task.due_date <= t.due_date
        IN /\ \A b \in DOMAIN batches : \A k \in DOMAIN batches[b].tasks :
                  Leads(batches[b].tasks[1], batches[b].tasks[k])
           /\ \E b \in DOMAIN batches : \A c \in DOMAIN batches :
                  \A k \in DOMAIN batches[c].tasks :
                      Leads(batches[b].tasks[1], batches[c].tasks[k])

\* C30: every batch produced by coordinate contains at least 1 and at most
\* 5 tasks (the seed plus at most 4 candidates), and every non-seed task of
\* a batch is batchable with the batch's seed: same location or seed
\* location null, and due-on within 120 minutes of the seed's.
C30_BatchSizeAndBatchable ==
    coordination_result.kind = "plan" =>
        \A b \in DOMAIN coordination_result.batches :
            LET batch_tasks == coordination_result.batches[b].tasks
                seed_task == batch_tasks[1]
            IN /\ 1 <= Len(batch_tasks)
               /\ Len(batch_tasks) <= 5
               /\ \A k \in 2..Len(batch_tasks) :
                     /\ \/ batch_tasks[k].location = seed_task.location
                        \/ seed_task.location = NullLocation
                     /\ batch_tasks[k].due_date - seed_task.due_date <= 120
                     /\ seed_task.due_date - batch_tasks[k].due_date <= 120

\* a plan with a batch of five whose seed had a sixth batchable task, left
\* to another batch, and a task of another room, not batchable with it
C30_Witness ==
    /\ coordination_result.kind = "plan"
    /\ \E b, c \in DOMAIN coordination_result.batches :
          /\ b # c
          /\ Len(coordination_result.batches[b].tasks) = 5
          /\ \E k \in DOMAIN coordination_result.batches[c].tasks :
                AreTasksBatchable(coordination_result.batches[b].tasks[1],
                                  coordination_result.batches[c].tasks[k])
          /\ \E d \in DOMAIN coordination_result.batches :
                \E k \in DOMAIN coordination_result.batches[d].tasks :
                   LET seed_task == coordination_result.batches[b].tasks[1]
                       other == coordination_result.batches[d].tasks[k]
                   IN other.location # seed_task.location
                         /\ seed_task.location # NullLocation

-----------------------------------------------------------------------------
(* Execution order *)

\* C31: in the ordered batch list returned by coordinate the first batch
\* starts at 08:00, each following batch starts exactly 15 minutes after the
\* previous batch's estimated end (previous start + previous total
\* duration), so no two execution windows overlap, and the batches appear in
\* non-increasing order of 0.6 * efficiency + 0.4 * mean priority weight.
C31_StartTimesAndOrder ==
    coordination_result.kind = "plan" =>
        LET batches == coordination_result.batches
            Weights(b) == SumOf([k \in DOMAIN batches[b].tasks |->
                              CASE batches[b].tasks[k].priority = "Critical" -> 100
                                [] batches[b].tasks[k].priority = "High" -> 75
                                [] batches[b].tasks[k].priority = "Medium" -> 50
                                [] OTHER -> 25])
            \* 100 * task count * combined score, efficiency being in tenths
            Scaled(b) == 6 * batches[b].efficiency_score * Len(batches[b].tasks)
                            + 40 * Weights(b)
        IN /\ batches # <<>>
           /\ batches[1].optimal_start_time % Day = 8 * Hour
           /\ \A b \in DOMAIN batches :
                 batches[b].estimated_end_time
                    = batches[b].optimal_start_time + batches[b].total_duration_minutes
           /\ \A b \in 2..Len(batches) :
                 /\ batches[b].optimal_start_time = batches[b - 1].estimated_end_time + 15
                 /\ Scaled(b - 1) * Len(batches[b].tasks)
                       >= Scaled(b) * Len(batches[b - 1].tasks)
           /\ \A a, b \in DOMAIN batches :
                 a < b => batches[a].estimated_end_time <= batches[b].optimal_start_time

\* a plan of three batches or more of which the one made first is not the
\* one executed first
C31_Witness ==
    /\ coordination_result.kind = "plan"
    /\ Len(coordination_result.batches) >= 3
    /\ coordination_result.batches[1].id # 0
    /\ \E b \in DOMAIN coordination_result.batches :
          coordination_result.batches[b].total_duration_minutes
             # coordination_result.batches[1].total_duration_minutes

-----------------------------------------------------------------------------
(* Queue processing *)

\* the queue as the four scans of a cycle leave it, before it is processed
ScannedQueue ==
    CheckResourceAlerts(
        CheckGrowthMilestones(
            CheckOverdueTasks(
                CheckTaskReminders(notification_queue, notification_history),
                notification_history),
            gardens)[1])

\* how many entries of queue equal notification
Copies(queue, notification) ==
    Cardinality({ k \in DOMAIN queue : queue[k] = notification })

\* C32: each notifier cycle delivers at most 5 notifications from the
\* queue, and a delayed notification taken from the queue while quiet hours
\* are still active is put back in the queue: it is not lost and it is not
\* delivered in that cycle.
C32_AtMostFiveAndRequeue ==
    [][ CycleStep =>
          LET taken == SubSeq(ScannedQueue, 1, Min(5, Len(ScannedQueue)))
              held == { k \in DOMAIN taken : taken[k].delayed /\ IsQuietHours }
              delivered == Len(notification_history') - Len(notification_history)
          IN /\ delivered <= 5
             /\ delivered <= Len(taken) - Cardinality(held)
             /\ \A k \in held :
                   Copies(notification_queue', taken[k]) = Copies(ScannedQueue, taken[k])
             /\ Len(notification_queue') = Len(ScannedQueue) - (Len(taken) - Cardinality(held))
      ]_vars

\* quiet hours, after a cycle that found more than five entries: the delayed
\* alerts it took are at the back of the queue, behind those it did not reach
C32_Witness ==
    /\ IsQuietHours
    /\ Len(notification_history) = 6
    /\ Len(notification_queue) = 6
    /\ \A k \in DOMAIN notification_queue : notification_queue[k].delayed
    /\ notification_queue[1].resource_name = <<"Nutrient", 5>>
    /\ notification_queue[6].resource_name = <<"Nutrient", 4>>

-----------------------------------------------------------------------------
(* Batching as a partition *)

\* C33: batching partitions the resolved task list: every pending task
\* fetched for the date appears in exactly one returned batch and the sum
\* of the batch task counts equals total_tasks, for every task list.
C33_BatchesPartitionTasks ==
    \A date \in CoordDates :
        lastOp = <<"coordinate", date>> =>
            LET fetched == GetPendingTasksForDate(date) IN
            /\ \A f \in DOMAIN fetched :
                  Cardinality({ k \in DOMAIN PlannedTasks :
                                    PlannedTasks[k].id = fetched[f].id }) = 1
            /\ Len(PlannedTasks) = Len(fetched)
            /\ coordination_result.total_tasks = Len(fetched)
            /\ SumOf([b \in DOMAIN coordination_result.batches |->
                         coordination_result.batches[b].task_count])
                  = coordination_result.total_tasks

-----------------------------------------------------------------------------
(* Reach of the templates *)

\* template is eligible by stage and by days in stage for a garden planted
\* age whole days ago
EligibleAtAge(template, age) ==
    LET garden_info == GardenRow(1, "hydroponic", now - age * Day, TRUE)
        current_stage == DetermineGrowthStage(garden_info)
        days_since_planting == CalculateDaysSincePlanting(garden_info)
    IN /\ template.growth_stage = current_stage
       /\ CalculateDaysInCurrentStage(current_stage, days_since_planting)
             >= template.days_from_stage_start

\* C34: every template of every catalogue is reachable: there is a number
\* of days since planting at which the derived stage equals the template's
\* stage and the days in stage are at least the template's
\* days-from-stage-start.  The last stage has no end, so the ages up to its
\* first day plus the template's offset decide.
C34_EveryTemplateReachable ==
    \A method \in {"hydroponic", "soil", "aeroponic"} :
        \A t \in DOMAIN TaskTemplates(method) :
            LET template == TaskTemplates(method)[t] IN
            \E age \in 0..(112 + template.days_from_stage_start) :
                EligibleAtAge(template, age)

-----------------------------------------------------------------------------
(* Delivery *)

\* C35: with notifications enabled and the worker running fairly, every
\* notification placed in the queue is eventually delivered once cycles run
\* outside quiet hours: as many history rows come to exist as notifications
\* were ever queued, and the queue does not keep an entry for ever.
C35_EveryQueuedDelivered ==
    /\ \A c \in 1..(MaxQueue + MaxHistory) :
          (Len(notification_queue) + Len(notification_history) >= c)
              ~> (Len(notification_history) >= c)
    /\ (notification_queue # <<>>) ~> (notification_queue = <<>>)

\* after the quiet hours: the queue is empty and the history holds the
\* notifications that were queued, and put back, while they lasted
C35_Witness ==
    /\ ~ IsQuietHours
    /\ notification_queue = <<>>
    /\ Len(notification_history) = 6
    /\ \E w \in ThreadIds : threads[w].pc = "sleep"

-----------------------------------------------------------------------------
(* Master switch *)

\* the entries a cycle takes from the front of the scanned queue
TakenEntries == SubSeq(ScannedQueue, 1, Min(PerCycleLimit, Len(ScannedQueue)))

\* the taken entries that are delayed while quiet hours are active
HeldEntries == { k \in DOMAIN TakenEntries : TakenEntries[k].delayed /\ IsQuietHours }

\* the scans of this cycle enqueue a reminder for every task inside the
\* reminder window and an overdue alert for every task past its due-on
ScansEnqueueAgain ==
    LET added == SubSeq(ScannedQueue, Len(notification_queue) + 1, Len(ScannedQueue))
    IN \A i \in DOMAIN tasks :
          /\ (tasks[i].due_date < now /\ notification_history = <<>>)
                => Cardinality({ k \in DOMAIN added :
                       added[k].type = "task_overdue" /\ added[k].task_id = i }) = 1
          /\ (/\ tasks[i].due_date > now
              /\ tasks[i].due_date <= now + preferences.reminder_advance_minutes
              /\ notification_history = <<>>)
                => Cardinality({ k \in DOMAIN added :
                       added[k].type = "task_reminder" /\ added[k].task_id = i }) = 1

\* C36 (as claimed): when the master preference 'enabled' is false, a
\* notification taken from the queue is discarded: no history record is
\* written and it is not put back in the queue; the scans keep enqueueing,
\* so the same reminder or overdue condition is enqueued again on every
\* later cycle.
C36_DisabledDiscardsTaken ==
    [][ (CycleStep /\ ~ preferences.enabled) =>
          /\ notification_history' = notification_history
          /\ notification_queue'
                = SubSeq(ScannedQueue, Len(TakenEntries) + 1, Len(ScannedQueue))
          /\ ScansEnqueueAgain ]_vars

\* C36 (amended): when 'enabled' is false no history record is written; a
\* taken notification is discarded and not put back, except a delayed one
\* taken while quiet hours are active, which goes to the back of the queue
\* as it does when 'enabled' is true; the scans keep enqueueing.
C36_DisabledDiscardsUnlessHeld ==
    [][ (CycleStep /\ ~ preferences.enabled) =>
          /\ notification_history' = notification_history
          /\ notification_queue'
                = SubSeq(ScannedQueue, Len(TakenEntries) + 1, Len(ScannedQueue))
                  \o [k \in 1..Cardinality(HeldEntries) |->
                        TakenEntries[CHOOSE j \in HeldEntries :
                            Cardinality({ h \in HeldEntries : h <= j }) = k]]
          /\ ScansEnqueueAgain ]_vars

\* switched off, outside quiet hours, after three cycles that each queued
\* the reminder and the overdue alert: nothing in the history, and of the
\* six entries only the one the last cycle did not reach is in the queue
C36_Witness ==
    /\ ~ preferences.enabled
    /\ ~ IsQuietHours
    /\ now = StartTime + 8 * Hour
    /\ notification_history = <<>>
    /\ Len(notification_queue) = 1
    /\ \E w \in ThreadIds : threads[w].pc = "sleep" /\ threads[w].wake_at = now + SleepMinutes

-----------------------------------------------------------------------------
(* Repeated resource alerts *)

\* the resource alerts for item in queue
AlertsFor(queue, item) ==
    Cardinality({ k \in DOMAIN queue :
        queue[k].type = "resource_alert" /\ queue[k].resource_name = item.name })

\* C37: while an inventory item stays low-stock every notifier cycle
\* enqueues a new resource alert for it, whatever the preferences and
\* whatever was queued or delivered before; with more than 5 low-stock
\* items every cycle leaves the queue longer than it found it.
C37_AlertEveryCycle ==
    [][ CycleStep =>
          LET low == { i \in DOMAIN inventory_items : LowStock(inventory_items[i]) }
          IN /\ \A i \in low :
                   AlertsFor(ScannedQueue, inventory_items[i])
                      = AlertsFor(notification_queue, inventory_items[i]) + 1
             /\ Len(ScannedQueue) >= Len(notification_queue) + Cardinality(low)
             /\ Cardinality(low) > 5
                   => Len(notification_queue') > Len(notification_queue) ]_vars

\* two cycles over six low items: twelve alerts were queued, and the queue
\* is longer after the second cycle than the single entry the first left
C37_Witness ==
    /\ Cardinality({ i \in DOMAIN inventory_items : LowStock(inventory_items[i]) }) = 6
    /\ ResourceAlerts(notification_queue, notification_history)
          + (IF preferences.enabled THEN 0 ELSE 6) >= 12
    /\ Len(notification_queue) = 6
    /\ \A i \in DOMAIN inventory_items :
          AlertsFor(notification_queue, inventory_items[i]) = 1

-----------------------------------------------------------------------------
(* Direction of the stage update *)

\* C38: the notifier never moves a garden to an earlier stage in the order
\* germination < seedling < vegetative < flowering < harvest < curing; a
\* garden whose stored stage is ahead of its age-derived stage keeps it.
C38_StageNeverMovesBack ==
    [][ \A g \in GardenIds :
          StageRank(gardens'[g].current_stage) >= StageRank(gardens[g].current_stage) ]_vars

-----------------------------------------------------------------------------
(* Growth-milestone preference *)

\* the active gardens whose age-derived stage differs from the stored one
StageDiffers ==
    { g \in GardenIds :
        /\ gardens[g].is_active
        /\ GetExpectedStage(UtcNow - gardens[g].planted_date) # gardens[g].current_stage }

\* C39: with the growth-milestone preference off, a notifier cycle leaves
\* every garden's current_stage and stage_start_date unchanged and queues
\* no milestone, also for gardens whose age-derived stage differs from the
\* stored one.
C39_FlagOffNoStageUpdate ==
    [][ (CycleStep /\ ~ preferences.growth_milestones) =>
          /\ \A g \in GardenIds :
                /\ gardens'[g].current_stage = gardens[g].current_stage
                /\ gardens'[g].stage_start_date = gardens[g].stage_start_date
          /\ \A k \in DOMAIN ScannedQueue : ScannedQueue[k].type # "growth_milestone" ]_vars

\* the flag is off, a cycle has run and the worker sleeps, and garden 1 is
\* still stored as germination at 120 days with its first stage_start_date
C39_Witness ==
    /\ ~ preferences.growth_milestones
    /\ \E w \in ThreadIds : threads[w].pc = "sleep" /\ threads[w].wake_at = now + SleepMinutes
    /\ 1 \in StageDiffers
    /\ gardens[1].current_stage = "germination"
    /\ now - gardens[1].planted_date = 120 * Day
    /\ ~ StageUpdated(1)

-----------------------------------------------------------------------------
(* Reminder and overdue scans of one cycle *)

\* the entries the scans of this cycle add to the queue
ScanAdded == SubSeq(ScannedQueue, Len(notification_queue) + 1, Len(ScannedQueue))

\* the tasks for which the scans of this cycle queue a notification of type
TasksNotified(type) ==
    { ScanAdded[k].task_id : k \in { j \in DOMAIN ScanAdded : ScanAdded[j].type = type } }

\* C40: within one notifier cycle no pending task is selected by both the
\* reminder scan and the overdue scan: no task gets a task-reminder and a
\* task-overdue notification queued in the same cycle.
C40_ReminderAndOverdueDisjoint ==
    [][ CycleStep =>
          TasksNotified("task_reminder") \cap TasksNotified("task_overdue") = {} ]_vars

====
